---- MODULE Spec2Model ----
(***************************************************************************)
(* Model of the vsc-administration synchronisation scripts.                *)
(*                                                                         *)
(*   Spec    the LDAP sync, bin/sync_ugent_vsc_users.py: main(),           *)
(*           process_users(), process_vos() and                            *)
(*           notify_user_directory_created(), run as successive passes     *)
(*           against a directory whose entries change while time passes.   *)
(*   SpecPasses  the same with every step succeeding, over several runs.   *)
(*   SpecT1  the tier-1c sync, lib/vsc/administration/sync.py.             *)
(*   SpecRuns    several instances of main() contending for the lock.      *)
(*   SpecFs  the backend calls of vo.py and tier1c.py for one user, one    *)
(*           VO and one project, run as successive passes.                 *)
(*   SpecMember  the member quota steps of vo.py and tier1c.py on a VO     *)
(*           whose filesets exist.                                         *)
(*   SpecT1Call  SpecT1 for a caller that passes any storage name.         *)
(*   SpecDoEnd   the end of VscTier1cSync.do() from every combination of   *)
(*           the collections it returns.                                   *)
(*   SpecVoOld   the moderator methods of VoOld, lib/vsc/administration/   *)
(*           vo.py, on an instance bound to an entry of the LDAP.          *)
(*                                                                         *)
(* Calls into packages that are not part of the sources (the LDAP          *)
(* entities, the GPFS operations, the lock file, the nagios reporter, the  *)
(* timestamp helpers) either return or raise; which one is an input.       *)
(***************************************************************************)
EXTENDS Integers, Sequences, FiniteSets, TLC

(***************************************************************************)
(* Bounds of the model.                                                    *)
(***************************************************************************)
\* the clock runs from 1 to MaxTime
MaxTime == 3
\* number of runs of main() in one behaviour
MaxPasses == 2
\* number of modifications of directory entries in one behaviour
MaxMods == 1

(***************************************************************************)
(* The directory: users, VOs and their members.                            *)
(***************************************************************************)
Users == {"vsc40001", "vsc40002"}
InstituteVos == {"gvo00012"}
Vos == {"gvo00001", "gvo00002"} \cup InstituteVos
Entries == Users \cup Vos

\* vo.memberUid
memberUid ==
  [v \in Vos |-> IF v = "gvo00001" THEN <<"vsc40001", "vsc40002">>
                 ELSE IF v = "gvo00002" THEN <<"vsc40002">>
                 ELSE <<>>]

\* the default lower bound of the change set, "200901010000Z"
FarPast == 0

\* the steps of the try block of process_users, in program order:
\* 1 create_home_dir, 2 set_home_quota, 3 populate_home_dir,
\* 4 create_data_dir, 5 set_data_quota, 6 notify_user_directory_created
NSteps == 6
\* the project/VO level steps of process_vos:
\* 1 vo.status, 2 create_data_fileset, 3 set_data_quota
NVoSteps == 3
\* the member steps of process_vos:
\* 1 set_member_data_quota, 2 set_member_data_symlink
NMemberSteps == 2

Perms(S) == {s \in [1..Cardinality(S) -> S] : \A i, j \in 1..Cardinality(S) : s[i] = s[j] => i = j}

Range(s) == {s[i] : i \in 1..Len(s)}

VARIABLES
  pc,             \* position of the run in main()
  pass,           \* number of the run
  opts,           \* opts.options: user, vo, dry_run, nagios
  lock,           \* the lock file: "free", "self", "other"
  now,            \* the clock
  tsFile,         \* the timestamp stored in SYNC_TIMESTAMP_FILENAME
  last_timestamp, \* main's last_timestamp
  modTime,        \* modifyTimestamp of each directory entry
  mods,           \* number of modifications so far
  faulty,         \* whether calls on the storage backend and on entities may raise
  status,         \* user.status in the LDAP
  ugent_users,    \* the users found by VscUser.lookup, in lookup order
  ui,             \* index of process_users' loop
  ok_users,       \* process_users' ok_users
  error_users,    \* process_users' error_users
  user_ok,        \* main's user_ok (line 196)
  users_ok,       \* main's users_ok (line 205)
  users_critical, \* main's users_critical
  ugent_vos,      \* the VOs found by VscVo.lookup, institute VOs left out
  vi,             \* index of process_vos' outer loop
  mi,             \* index of process_vos' member loop
  ok_vos,         \* process_vos' ok_vos (a MonoidDict)
  error_vos,      \* process_vos' error_vos (a MonoidDict)
  vos_ok,         \* main's vos_ok
  vos_critical,   \* main's vos_critical
  nagios,         \* the record cached by the nagios reporter
  exitcode,       \* exit status of the run
  locals,         \* the names bound in main's namespace
  \* history of the run, read by the properties only
  stepsDone,      \* per user: number of steps of the try block that returned
  attempts,       \* per user: number of times the try block was entered
  voSteps,        \* per VO: number of VO level steps that returned
  voHandler,      \* VOs for which the outer except was entered
  mAttempts,      \* per VO: the members whose try block was entered
  mRaised,        \* per VO: the members whose steps raised
  tsAtStart,      \* the stored timestamp when the run started
  tsWrite,        \* the timestamp write of this run: "none", "written", "raised"
  tsRead,         \* the timestamp read of this run: "none", "read", "raised"
  acquired,       \* whether this run acquired the lock
  cached,         \* number of records this run cached in the nagios reporter
  fatal,          \* the statement of the try block of main that raised, "none" when none did
  windowMods,     \* entries modified between their fetch and the timestamp write
  lost,           \* entries modified in that window and not selected afterwards
  \* the tier1c sync, VscTier1cSync.do
  t1pc,           \* position in do()
  t1opts,         \* self.options: user, projects; and dry_run
  t1in,           \* what the account page returns: changed accounts, quota and projects
  t1k,            \* index of the loop of process_t1_users that is running
  t1users,        \* process_t1_users' ok_users, error_users, ok_quota, error_quota
  t1prj,          \* process_projects' ok_prj and error_prj
  t1seen,         \* the ids whose handling has started, in order
  thresholds,     \* self.thresholds
  t1ret,          \* what do() returned or raised
  t1env,          \* what the calls made for the projects did
  \* concurrently started runs of main()
  rpc,            \* per run: its position in main()
  lockHolder,     \* the run whose pid is in the lock file, 0 when there is none
  routcome,       \* per run: the state of the record it cached
  \* the provisioning calls on the storage backend
  fpc,            \* position in the provisioning sequence
  fround,         \* number of the pass over the same change set
  fin,            \* the inputs: options, LDAP attributes, configuration, what the backend does
  fmi,            \* index of the member loop
  gpfs,           \* the state of the storage backend
  fcalls,         \* the backend calls issued in this pass, in order
  fstatus,        \* user.status of the user that is provisioned
  fexc,           \* per method called in this pass: the exception it raised, "none" when it returned
  ffail,          \* the entities for which an except clause was entered in this pass
  fsnap,          \* per finished pass: the backend state, the status and the failures at its end
  \* the moderators of a VoOld instance
  mpc,            \* "new", "constructed", "loaded", "raised" (the constructor or load/add raised)
  mvo,            \* the attributes of the instance: exists, moderators, institute
  mldap,          \* the moderator attribute of the VO's entry in the LDAP
  mret,           \* the last call of add_moderator or delete_moderator and what it returned or raised
  mn              \* number of calls made so far

vars == <<pc, pass, opts, lock, now, tsFile, last_timestamp, modTime, mods, faulty, status,
          ugent_users, ui, ok_users, error_users, user_ok, users_ok, users_critical,
          ugent_vos, vi, mi, ok_vos, error_vos, vos_ok, vos_critical, nagios, exitcode,
          locals, stepsDone, attempts, voSteps, voHandler, mAttempts, mRaised,
          tsAtStart, tsWrite, tsRead, windowMods, lost, acquired, cached, fatal,
          t1pc, t1opts, t1in, t1k, t1users, t1prj, t1seen, thresholds, t1ret, t1env,
          rpc, lockHolder, routcome,
          fpc, fround, fin, fmi, gpfs, fcalls, fstatus, fexc, ffail, fsnap,
          mpc, mvo, mldap, mret, mn>>

modVars == <<mpc, mvo, mldap, mret, mn>>
runsVars == <<rpc, lockHolder, routcome>>
fsVars == <<fpc, fround, fin, fmi, gpfs, fcalls, fstatus, fexc, ffail, fsnap>>
t1Vars == <<t1pc, t1opts, t1in, t1k, t1users, t1prj, t1seen, thresholds, t1ret, t1env>>
ldapVars == <<pc, pass, opts, lock, now, tsFile, last_timestamp, modTime, mods, faulty, status,
              ugent_users, ui, ok_users, error_users, user_ok, users_ok, users_critical,
              ugent_vos, vi, mi, ok_vos, error_vos, vos_ok, vos_critical, nagios, exitcode,
              locals, stepsDone, attempts, voSteps, voHandler, mAttempts, mRaised,
              tsAtStart, tsWrite, tsRead, windowMods, lost, acquired, cached, fatal>>
envVars == <<now, modTime, mods, faulty>>
userVars == <<ugent_users, ui, ok_users, error_users, user_ok, users_ok, users_critical>>
voVars == <<ugent_vos, vi, mi, ok_vos, error_vos, vos_ok, vos_critical>>
userHist == <<stepsDone, attempts>>
voHist == <<voSteps, voHandler, mAttempts, mRaised>>
tsHist == <<tsAtStart, tsWrite, tsRead, windowMods, lost>>
runHist == <<acquired, cached, fatal>>

(***************************************************************************)
(* vsc.utils.missing.MonoidDict over the list monoid: a dictionary whose   *)
(* item assignment appends to the value already stored under the key.      *)
(***************************************************************************)
EmptyDict == <<>>

MonoidDictSet(d, k, v) ==
  IF k \in DOMAIN d THEN [d EXCEPT ![k] = @ \o v] ELSE d @@ (k :> v)

MonoidDictGet(d, k) == IF k \in DOMAIN d THEN d[k] ELSE <<>>

\* len() of a list or of a dictionary
PyLen(x) == Cardinality(DOMAIN x)

(***************************************************************************)
(* NewerThanFilter: the entries whose modifyTimestamp is not older than    *)
(* the given timestamp.                                                    *)
(***************************************************************************)
NewerThan(S, ts) == {e \in S : modTime[e] >= ts}


(***************************************************************************)
(* The state before the first run.                                         *)
(***************************************************************************)
NoOpts == [user |-> FALSE, vo |-> FALSE, dry_run |-> FALSE, nagios |-> FALSE]
NoNagios == [state |-> "none", message |-> "none"]
NoSteps == [u \in Users |-> 0]
NoVoSteps == [v \in Vos |-> 0]
NoMembers == [v \in Vos |-> {}]

InitRun ==
  /\ pc = "idle"
  /\ pass = 1
  /\ opts = NoOpts
  /\ now = 1
  /\ tsFile \in {FarPast, 1}
  /\ last_timestamp = FarPast
  /\ modTime \in {f \in [Entries -> 0..1] : \A e \in Entries \ {"vsc40002"} : f[e] = 1}
  /\ mods = 0
  /\ status = [u \in Users |-> IF u = "vsc40001" THEN "new" ELSE "active"]
  /\ ugent_users = <<>>
  /\ ui = 1
  /\ ok_users = <<>>
  /\ error_users = <<>>
  /\ user_ok = <<>>
  /\ users_ok = <<>>
  /\ users_critical = <<>>
  /\ ugent_vos = <<>>
  /\ vi = 1
  /\ mi = 1
  /\ ok_vos = EmptyDict
  /\ error_vos = EmptyDict
  /\ vos_ok = <<>>
  /\ vos_critical = <<>>
  /\ nagios = NoNagios
  /\ exitcode = "none"
  /\ locals = {}
  /\ stepsDone = NoSteps
  /\ attempts = NoSteps
  /\ voSteps = NoVoSteps
  /\ voHandler = {}
  /\ mAttempts = NoMembers
  /\ mRaised = NoMembers
  /\ tsAtStart = tsFile
  /\ tsWrite = "none"
  /\ tsRead = "none"
  /\ acquired = FALSE
  /\ cached = 0
  /\ fatal = "none"
  /\ windowMods = {}
  /\ lost = {}

NoT1Users == [ok_users |-> <<>>, error_users |-> <<>>, ok_quota |-> <<>>, error_quota |-> <<>>]
NoT1Prj == [ok_prj |-> <<>>, error_prj |-> <<>>]
NoT1Ret == [kind |-> "none"]
NoPrjEnv == [failPrj |-> {}, failMember |-> {}, hasPrjId |-> FALSE]

\* the tier1c sync is not running
T1Idle ==
  /\ t1pc = "off"
  /\ t1opts = [user |-> FALSE, projects |-> FALSE, dry_run |-> FALSE]
  /\ t1in = [accounts |-> <<>>, quota |-> <<>>, prjs |-> {}, prj_quota |-> {},
             storage_name |-> "dodrioscratch"]
  /\ t1k = 1
  /\ t1users = NoT1Users
  /\ t1prj = NoT1Prj
  /\ t1seen = <<>>
  /\ thresholds = <<>>
  /\ t1ret = NoT1Ret
  /\ t1env = NoPrjEnv

\* number of concurrently started runs of main()
MaxRuns == 2
Runs == 1..MaxRuns

\* no run has been started concurrently
RunsIdle ==
  /\ rpc = [r \in Runs |-> "off"]
  /\ lockHolder = 0
  /\ routcome = [r \in Runs |-> "none"]

NoGpfs == [filesets |-> {}, dirs |-> {}, mode |-> <<>>, owner |-> <<>>, quota |-> <<>>,
           grace |-> <<>>, uquota |-> <<>>]
NoFsIn == [dry_run |-> FALSE, status |-> "new", dataQuota |-> 0, frac |-> <<1, 1>>,
           failing |-> {}, lookup |-> "ok", rf |-> 1, cache |-> 0, record |-> 0,
           exists |-> FALSE, scratchQuota |-> 0]

\* a Python value: a string, a list or a tuple, or None
PyStr(s) == [t |-> "str", v |-> s]
PyList(items) == [t |-> "list", v |-> items]
PyTuple(items) == [t |-> "tuple", v |-> items]
PyNone == [t |-> "None", v |-> <<>>]

NoCall == [call |-> "none", arg |-> "", ret |-> "none"]

\* no VoOld instance is in use
VoOldIdle ==
  /\ mpc = "off"
  /\ mvo = [exists |-> FALSE, moderators |-> PyNone, institute |-> PyNone]
  /\ mldap = <<>>
  /\ mret = NoCall
  /\ mn = 0

\* the provisioning sequence is not running
FsIdle ==
  /\ fpc = "off"
  /\ fround = 1
  /\ fin = NoFsIn
  /\ fmi = 1
  /\ gpfs = NoGpfs
  /\ fcalls = <<>>
  /\ fstatus = "new"
  /\ fexc = <<>>
  /\ ffail = {}
  /\ fsnap = <<>>

\* one run of main(), every call free to raise
Init ==
  /\ InitRun
  /\ T1Idle
  /\ RunsIdle
  /\ FsIdle
  /\ VoOldIdle
  /\ lock \in {"free", "other"}
  /\ faulty = TRUE

\* successive runs of main() while the directory changes; the storage
\* backend and the entities answer every call
InitPasses ==
  /\ InitRun
  /\ T1Idle
  /\ RunsIdle
  /\ FsIdle
  /\ VoOldIdle
  /\ lock = "free"
  /\ faulty = FALSE

\* the outcomes of a sequence of n steps: the step that raises, 0 when none does
Outcomes(n) == IF faulty THEN 0..n ELSE {0}

(***************************************************************************)
(* The environment: time passes, directory entries are modified, another   *)
(* instance of the script holds the lock.                                  *)
(***************************************************************************)
\* the run has read the change set of this kind and not yet written the timestamp
InWindow(e) ==
  IF e \in Users
    THEN opts.user /\ pc \in {"process_users", "vos", "process_vos", "vo_members", "result", "write_ts"}
    ELSE opts.vo /\ pc \in {"process_vos", "vo_members", "result", "write_ts"}

Tick ==
  /\ now < MaxTime
  /\ now' = now + 1
  /\ UNCHANGED <<modVars, runsVars, fsVars, t1Vars, runHist, pc, pass, opts, lock, tsFile, last_timestamp, modTime, mods, faulty, status,
                 userVars, voVars, nagios, exitcode, locals, userHist, voHist, tsHist>>

LdapModify ==
  /\ mods < MaxMods
  /\ \E e \in Entries \ InstituteVos :
       /\ modTime[e] < now
       /\ modTime' = [modTime EXCEPT ![e] = now]
       /\ windowMods' = IF InWindow(e) THEN windowMods \cup {e} ELSE windowMods
  /\ mods' = mods + 1
  /\ UNCHANGED <<modVars, runsVars, fsVars, t1Vars, runHist, pc, pass, opts, lock, now, faulty, tsFile, last_timestamp, status,
                 userVars, voVars, nagios, exitcode, locals, userHist, voHist,
                 tsAtStart, tsWrite, tsRead, lost>>

OtherRun ==
  /\ pc = "idle"
  /\ lock \in {"free", "other"}
  /\ lock' = IF lock = "free" THEN "other" ELSE "free"
  /\ UNCHANGED <<modVars, runsVars, fsVars, t1Vars, runHist, pc, pass, opts, envVars, tsFile, last_timestamp, status,
                 userVars, voVars, nagios, exitcode, locals, userHist, voHist, tsHist>>


(***************************************************************************)
(* notify_user_directory_created: the status of the user afterwards.       *)
(***************************************************************************)
\* variant that pushes a status change for every status but 'active'
notify_user_directory_created_mut(st, dry_run) ==
  IF dry_run THEN st
  ELSE IF st = "new" THEN "notify"
  ELSE IF st = "notify" THEN "new" ELSE st

notify_user_directory_created(st, dry_run) ==
  IF dry_run THEN st
  ELSE IF st = "new" THEN "notify" ELSE st

(***************************************************************************)
(* main(): option parsing, the nagios report, the lock.                    *)
(***************************************************************************)
\* variant of lines 166-178 without the test of the nagios flag
Start_mut ==
  /\ pc = "idle"
  /\ \E u, v, d, n \in BOOLEAN :
       opts' = [user |-> u, vo |-> v, dry_run |-> d, nagios |-> n]
  /\ pc' = "lock"
  /\ tsAtStart' = tsFile
  /\ UNCHANGED <<modVars, runsVars, fsVars, t1Vars, runHist, pass, lock, envVars, tsFile, last_timestamp, status, userVars, voVars,
                 nagios, exitcode, locals, userHist, voHist, tsWrite, tsRead, windowMods, lost>>

\* a run starts: simple_option(options), NagiosReporter(...)
Start ==
  /\ pc = "idle"
  /\ \E u, v, d, n \in BOOLEAN :
       opts' = [user |-> u, vo |-> v, dry_run |-> d, nagios |-> n]
  /\ pc' = IF opts'.nagios THEN "report" ELSE "lock"
  /\ tsAtStart' = tsFile
  /\ UNCHANGED <<modVars, runsVars, fsVars, t1Vars, runHist, pass, lock, envVars, tsFile, last_timestamp, status, userVars, voVars,
                 nagios, exitcode, locals, userHist, voHist, tsWrite, tsRead, windowMods, lost>>

\* nagios_reporter.report_and_exit(): print the cached record, exit with its state
ReportAndExit ==
  /\ pc = "report"
  /\ pc' = "exited"
  /\ exitcode' = nagios.state
  /\ UNCHANGED <<modVars, runsVars, fsVars, t1Vars, runHist, pass, opts, lock, envVars, tsFile, last_timestamp, status, userVars,
                 voVars, nagios, locals, userHist, voHist, tsHist>>

\* variant of the except clause that exits without lockfile.release()
Fatal_mut(where) ==
  /\ nagios' = [state |-> "CRITICAL", message |-> "Script failed, check log file"]
  /\ lock' = lock
  /\ exitcode' = "CRITICAL"
  /\ pc' = "exited"
  /\ cached' = cached + 1
  /\ fatal' = where

\* the except clause of main: cache CRITICAL, release the lock, exit CRITICAL
Fatal(where) ==
  /\ nagios' = [state |-> "CRITICAL", message |-> "Script failed, check log file"]
  /\ lock' = "free"
  /\ exitcode' = "CRITICAL"
  /\ pc' = "exited"
  /\ cached' = cached + 1
  /\ fatal' = where

\* variant of lock_or_bork that goes on without the lock when it is taken
LockOrBork_mut ==
  /\ pc = "lock"
  /\ lock' = IF lock = "free" THEN "self" ELSE lock
  /\ acquired' = (lock = "free")
  /\ pc' = "init_ldap"
  /\ UNCHANGED <<nagios, exitcode, cached>>
  /\ UNCHANGED <<modVars, runsVars, fsVars, t1Vars, fatal, pass, opts, envVars, tsFile, last_timestamp, status, userVars, voVars,
                 locals, userHist, voHist, tsHist>>

\* lock_or_bork(lockfile, nagios_reporter)
LockOrBork ==
  /\ pc = "lock"
  /\ IF lock = "free"
       THEN /\ lock' = "self"
            /\ acquired' = TRUE
            /\ pc' = "init_ldap"
            /\ UNCHANGED <<nagios, exitcode, cached>>
       ELSE /\ nagios' = [state |-> "CRITICAL", message |-> "script already running"]
            /\ cached' = cached + 1
            /\ exitcode' = "CRITICAL"
            /\ pc' = "exited"
            /\ UNCHANGED <<lock, acquired>>
  /\ UNCHANGED <<modVars, runsVars, fsVars, t1Vars, fatal, pass, opts, envVars, tsFile, last_timestamp, status, userVars, voVars,
                 locals, userHist, voHist, tsHist>>

\* LdapQuery(VscConfiguration()), VSC(), VscStorage()
InitLdap ==
  /\ pc = "init_ldap"
  /\ \E raises \in BOOLEAN :
       IF raises
         THEN Fatal("init") /\ UNCHANGED locals
         ELSE /\ pc' = "read_ts"
              /\ locals' = locals \cup {"vsc", "storage"}
              /\ UNCHANGED <<lock, nagios, exitcode, cached, fatal>>
  /\ UNCHANGED <<modVars, runsVars, fsVars, t1Vars, acquired, pass, opts, envVars, tsFile, last_timestamp, status, userVars, voVars,
                 userHist, voHist, tsHist>>

\* variant of lines 185-189 without the except clause: the exception of
\* read_timestamp reaches the except clause of main
ReadTimestamp_mut ==
  /\ pc = "read_ts"
  /\ \E raises \in BOOLEAN :
       IF raises
         THEN /\ Fatal("read_ts")
              /\ tsRead' = "raised"
              /\ UNCHANGED <<last_timestamp, locals>>
         ELSE /\ last_timestamp' = tsFile
              /\ tsRead' = "read"
              /\ locals' = locals \cup {"last_timestamp", "timestamp_filter"}
              /\ pc' = "users"
              /\ UNCHANGED <<lock, nagios, exitcode, cached, fatal>>
  /\ UNCHANGED <<modVars, runsVars, fsVars, t1Vars, acquired, pass, opts, envVars, tsFile, status, userVars, voVars,
                 userHist, voHist, tsAtStart, tsWrite, windowMods, lost>>

\* read_timestamp(SYNC_TIMESTAMP_FILENAME), with the default when it raises
ReadTimestamp ==
  /\ pc = "read_ts"
  /\ \E raises \in BOOLEAN :
       /\ last_timestamp' = IF raises THEN FarPast ELSE tsFile
       /\ tsRead' = IF raises THEN "raised" ELSE "read"
  /\ locals' = locals \cup {"last_timestamp", "timestamp_filter"}
  /\ pc' = "users"
  /\ UNCHANGED <<modVars, runsVars, fsVars, t1Vars, runHist, pass, opts, lock, envVars, tsFile, status, userVars, voVars,
                 nagios, exitcode, userHist, voHist, tsAtStart, tsWrite, windowMods, lost>>


(***************************************************************************)
(* process_users.  failAt is the step of the try block that raises for     *)
(* this user, 0 when none does.                                            *)
(***************************************************************************)
\* the number of steps of the try block that returned
StepsReturned(failAt) == IF failAt = 0 THEN NSteps ELSE failAt - 1

\* ok_users after the iteration for user: the append is the last statement of the try block
ok_users_after(ok, user, failAt) ==
  IF failAt = 0 THEN Append(ok, user) ELSE ok

\* variant of the except clause that only logs
error_users_after_mut(err, user, failAt) == err

\* error_users after the iteration for user: the append of the except clause
error_users_after(err, user, failAt) ==
  IF failAt # 0 THEN Append(err, user) ELSE err

\* variant in which the status transition does not depend on the steps before it
status_after_mut(st, failAt, dry_run) == notify_user_directory_created(st, dry_run)

\* user.status after the iteration: step 6 is reached when steps 1..5 returned
status_after(st, failAt, dry_run) ==
  IF failAt = 0 THEN notify_user_directory_created(st, dry_run) ELSE st

\* lines 196-203: the initial values, then VscUser.lookup when the user flag is set
LookupUsers ==
  /\ pc = "users"
  /\ user_ok' = <<>>
  /\ users_critical' = <<>>
  /\ locals' = locals \cup {"user_ok", "users_critical"}
  /\ IF ~opts.user
       THEN /\ pc' = "vos"
            /\ UNCHANGED <<lock, nagios, exitcode, cached, fatal, ugent_users, ui, ok_users,
                           error_users, windowMods, lost>>
       ELSE \E raises \in BOOLEAN :
              IF raises
                THEN /\ Fatal("users")
                     /\ UNCHANGED <<ugent_users, ui, ok_users, error_users, windowMods, lost>>
                ELSE /\ ugent_users' \in Perms(NewerThan(Users, last_timestamp))
                     /\ ui' = 1
                     /\ ok_users' = <<>>
                     /\ error_users' = <<>>
                     /\ lost' = lost \cup ((windowMods \cap Users) \ NewerThan(Users, last_timestamp))
                     /\ windowMods' = windowMods \ Users
                     /\ pc' = "process_users"
                     /\ UNCHANGED <<lock, nagios, exitcode, cached, fatal>>
  /\ UNCHANGED <<modVars, runsVars, fsVars, t1Vars, acquired, pass, opts, envVars, tsFile, last_timestamp, status, users_ok, voVars,
                 userHist, voHist, tsAtStart, tsWrite, tsRead>>

\* one iteration of the loop of process_users (lines 88-105)
ProcessUser ==
  /\ pc = "process_users"
  /\ ui <= Len(ugent_users)
  /\ \E failAt \in Outcomes(NSteps) :
       LET user == ugent_users[ui] IN
         /\ status' = [status EXCEPT ![user] = status_after(@, failAt, opts.dry_run)]
         /\ ok_users' = ok_users_after(ok_users, user, failAt)
         /\ error_users' = error_users_after(error_users, user, failAt)
         /\ stepsDone' = [stepsDone EXCEPT ![user] = StepsReturned(failAt)]
         /\ attempts' = [attempts EXCEPT ![user] = @ + 1]
  /\ ui' = ui + 1
  /\ UNCHANGED <<modVars, runsVars, fsVars, t1Vars, runHist, pc, pass, opts, lock, envVars, tsFile, last_timestamp, ugent_users,
                 user_ok, users_ok, users_critical, voVars, nagios, exitcode, locals,
                 voHist, tsHist>>

\* process_users returns (line 107); main binds users_ok and users_critical (line 205)
ProcessUsersReturn ==
  /\ pc = "process_users"
  /\ ui > Len(ugent_users)
  /\ users_ok' = ok_users
  /\ users_critical' = error_users
  /\ locals' = locals \cup {"users_ok", "ugent_users"}
  /\ pc' = "vos"
  /\ UNCHANGED <<modVars, runsVars, fsVars, t1Vars, runHist, pass, opts, lock, envVars, tsFile, last_timestamp, status, ugent_users,
                 ui, ok_users, error_users, user_ok, voVars, nagios, exitcode,
                 userHist, voHist, tsHist>>

(***************************************************************************)
(* process_vos.  voFail is the VO level step that raises, mFail the member *)
(* step that raises, 0 when none does.                                     *)
(***************************************************************************)
\* ok_vos after the try block of one member
ok_vos_after(d, vo, user, mFail) ==
  IF mFail = 0 THEN MonoidDictSet(d, vo, <<user>>) ELSE d

\* error_vos after the except clause of one member
error_vos_after(d, vo, user, mFail) ==
  IF mFail # 0 THEN MonoidDictSet(d, vo, <<user>>) ELSE d

\* error_vos after the outer except clause (lines 136-137): it logs, and stores nothing
error_vos_outer(d, vo) == d

\* lines 207-214: the initial values, then VscVo.lookup when the vo flag is set
LookupVos ==
  /\ pc = "vos"
  /\ vos_ok' = <<>>
  /\ vos_critical' = <<>>
  /\ locals' = locals \cup {"vos_ok", "vos_critical"}
  /\ IF ~opts.vo
       THEN /\ pc' = "result"
            /\ UNCHANGED <<lock, nagios, exitcode, cached, fatal, ugent_vos, vi, mi, ok_vos,
                           error_vos, windowMods, lost>>
       ELSE \E raises \in BOOLEAN :
              IF raises
                THEN /\ Fatal("vos")
                     /\ UNCHANGED <<ugent_vos, vi, mi, ok_vos, error_vos, windowMods, lost>>
                ELSE /\ ugent_vos' \in Perms(NewerThan(Vos, last_timestamp) \ InstituteVos)
                     /\ vi' = 1
                     /\ mi' = 1
                     /\ ok_vos' = EmptyDict
                     /\ error_vos' = EmptyDict
                     /\ lost' = lost \cup ((windowMods \cap Vos) \ NewerThan(Vos, last_timestamp))
                     /\ windowMods' = windowMods \ Vos
                     /\ pc' = "process_vos"
                     /\ UNCHANGED <<lock, nagios, exitcode, cached, fatal>>
  /\ UNCHANGED <<modVars, runsVars, fsVars, t1Vars, acquired, pass, opts, envVars, tsFile, last_timestamp, status, userVars,
                 userHist, voHist, tsAtStart, tsWrite, tsRead>>

\* the VO level part of one iteration of the outer loop (lines 122-126, 136-137)
ProcessVo ==
  /\ pc = "process_vos"
  /\ vi <= Len(ugent_vos)
  /\ \E voFail \in Outcomes(NVoSteps) :
       LET vo == ugent_vos[vi] IN
         /\ voSteps' = [voSteps EXCEPT ![vo] = IF voFail = 0 THEN NVoSteps ELSE voFail - 1]
         /\ IF voFail # 0
              THEN /\ error_vos' = error_vos_outer(error_vos, vo)
                   /\ voHandler' = voHandler \cup {vo}
                   /\ vi' = vi + 1
                   /\ UNCHANGED <<pc, mi>>
              ELSE IF Len(memberUid[vo]) = 0
                THEN /\ vi' = vi + 1
                     /\ UNCHANGED <<pc, mi, error_vos, voHandler>>
                ELSE /\ mi' = 1
                     /\ pc' = "vo_members"
                     /\ UNCHANGED <<vi, error_vos, voHandler>>
  /\ UNCHANGED <<modVars, runsVars, fsVars, t1Vars, runHist, pass, opts, lock, envVars, tsFile, last_timestamp, status, userVars,
                 ugent_vos, ok_vos, vos_ok, vos_critical, nagios, exitcode, locals,
                 userHist, mAttempts, mRaised, tsHist>>

\* one iteration of the member loop (lines 128-135)
ProcessVoMember ==
  /\ pc = "vo_members"
  /\ \E mFail \in Outcomes(NMemberSteps) :
       LET vo == ugent_vos[vi]
           user == memberUid[vo][mi] IN
         /\ ok_vos' = ok_vos_after(ok_vos, vo, user, mFail)
         /\ error_vos' = error_vos_after(error_vos, vo, user, mFail)
         /\ mAttempts' = [mAttempts EXCEPT ![vo] = @ \cup {user}]
         /\ mRaised' = [mRaised EXCEPT ![vo] = IF mFail # 0 THEN @ \cup {user} ELSE @]
         /\ IF mi < Len(memberUid[vo])
              THEN /\ mi' = mi + 1
                   /\ UNCHANGED <<pc, vi>>
              ELSE /\ vi' = vi + 1
                   /\ pc' = "process_vos"
                   /\ UNCHANGED mi
  /\ UNCHANGED <<modVars, runsVars, fsVars, t1Vars, runHist, pass, opts, lock, envVars, tsFile, last_timestamp, status, userVars,
                 ugent_vos, vos_ok, vos_critical, nagios, exitcode, locals,
                 userHist, voSteps, voHandler, tsHist>>

\* process_vos returns (line 139); main binds vos_ok and vos_critical (line 216)
ProcessVosReturn ==
  /\ pc = "process_vos"
  /\ vi > Len(ugent_vos)
  /\ vos_ok' = ok_vos
  /\ vos_critical' = error_vos
  /\ locals' = locals \cup {"ugent_vos"}
  /\ pc' = "result"
  /\ UNCHANGED <<modVars, runsVars, fsVars, t1Vars, runHist, pass, opts, lock, envVars, tsFile, last_timestamp, status, userVars,
                 ugent_vos, vi, mi, ok_vos, error_vos, nagios, exitcode,
                 userHist, voHist, tsHist>>


(***************************************************************************)
(* main(): the result, the timestamp, the lock release.                    *)
(***************************************************************************)
\* the names read by lines 225-229
ResultNames == {"users_ok", "users_critical", "vos_ok", "vos_critical"}

\* NagiosResult("UGent users synchronised", users=..., users_critical=..., vos=..., vos_critical=...)
NagiosResult(state, message) ==
  [state |-> state, message |-> message,
   users |-> PyLen(users_ok), users_critical |-> PyLen(users_critical),
   vos |-> PyLen(vos_ok), vos_critical |-> PyLen(vos_critical)]

\* variant that yields the default timestamp of read_timestamp
convert_timestamp_mut(clock) == FarPast

\* convert_timestamp(): the LDAP form of the current time
convert_timestamp(clock) == clock

\* lines 225-229: a name that was never bound raises NameError outside every try block
MakeResult ==
  /\ pc = "result"
  /\ IF ResultNames \subseteq locals
       THEN /\ pc' = "write_ts"
            /\ UNCHANGED exitcode
       ELSE /\ pc' = "crashed"
            /\ exitcode' = "TRACEBACK"
  /\ locals' = IF ResultNames \subseteq locals THEN locals \cup {"result"} ELSE locals
  /\ UNCHANGED <<modVars, runsVars, fsVars, t1Vars, runHist, pass, opts, lock, envVars, tsFile, last_timestamp, status, userVars,
                 voVars, nagios, userHist, voHist, tsHist>>

\* variant of lines 230-237 whose except clause caches NAGIOS_EXIT_OK
WriteTimestamp_mutOk ==
  /\ pc = "write_ts"
  /\ \E raises \in BOOLEAN :
       IF raises
         THEN /\ nagios' = NagiosResult("OK", "UGent users synchronised")
              /\ tsWrite' = "raised"
              /\ UNCHANGED tsFile
         ELSE /\ tsFile' = convert_timestamp(now)
              /\ tsWrite' = "written"
              /\ nagios' = NagiosResult("OK", "UGent users synchronised")
  /\ pc' = "release"
  /\ cached' = cached + 1
  /\ UNCHANGED <<modVars, runsVars, fsVars, t1Vars, acquired, fatal, pass, opts, lock, envVars, last_timestamp, status, userVars, voVars,
                 exitcode, locals, userHist, voHist, tsAtStart, tsRead, windowMods, lost>>

\* variant of lines 230-237 that writes the timestamp only when no user and
\* no VO member failed
WriteTimestamp_mut ==
  /\ pc = "write_ts"
  /\ \E raises \in BOOLEAN :
       IF raises
         THEN /\ nagios' = NagiosResult("WARNING", "UGent users synchronised, filestamp not written")
              /\ tsWrite' = "raised"
              /\ UNCHANGED tsFile
         ELSE /\ tsFile' = IF PyLen(users_critical) + PyLen(vos_critical) > 0
                             THEN tsFile ELSE convert_timestamp(now)
              /\ tsWrite' = IF PyLen(users_critical) + PyLen(vos_critical) > 0
                              THEN tsWrite ELSE "written"
              /\ nagios' = NagiosResult("OK", "UGent users synchronised")
  /\ pc' = "release"
  /\ cached' = cached + 1
  /\ UNCHANGED <<modVars, runsVars, fsVars, t1Vars, acquired, fatal, pass, opts, lock, envVars, last_timestamp, status, userVars, voVars,
                 exitcode, locals, userHist, voHist, tsAtStart, tsRead, windowMods, lost>>

\* lines 230-237: write the current time as the new timestamp and cache OK,
\* or cache WARNING when that raises
WriteTimestamp ==
  /\ pc = "write_ts"
  /\ \E raises \in BOOLEAN :
       IF raises
         THEN /\ nagios' = NagiosResult("WARNING", "UGent users synchronised, filestamp not written")
              /\ tsWrite' = "raised"
              /\ UNCHANGED tsFile
         ELSE /\ tsFile' = convert_timestamp(now)
              /\ tsWrite' = "written"
              /\ nagios' = NagiosResult("OK", "UGent users synchronised")
  /\ pc' = "release"
  /\ cached' = cached + 1
  /\ UNCHANGED <<modVars, runsVars, fsVars, t1Vars, acquired, fatal, pass, opts, lock, envVars, last_timestamp, status, userVars, voVars,
                 exitcode, locals, userHist, voHist, tsAtStart, tsRead, windowMods, lost>>

\* lines 238-242: release_or_bork(lockfile, nagios_reporter, result), then main returns
ReleaseOrBork ==
  /\ pc = "release"
  /\ lock' = "free"
  /\ exitcode' = "OK"
  /\ pc' = "done"
  /\ UNCHANGED <<modVars, runsVars, fsVars, t1Vars, runHist, pass, opts, envVars, tsFile, last_timestamp, status, userVars, voVars,
                 nagios, locals, userHist, voHist, tsHist>>

\* the process has ended; the next run of the script starts from fresh locals.
\* The lock file of a run that died stays behind.
NextRun ==
  /\ pc \in {"done", "exited", "crashed"}
  /\ pass < MaxPasses
  /\ pass' = pass + 1
  /\ pc' = "idle"
  /\ opts' = NoOpts
  /\ lock' = IF lock = "self" THEN "other" ELSE lock
  /\ last_timestamp' = FarPast
  /\ ugent_users' = <<>>
  /\ ui' = 1
  /\ ok_users' = <<>>
  /\ error_users' = <<>>
  /\ user_ok' = <<>>
  /\ users_ok' = <<>>
  /\ users_critical' = <<>>
  /\ ugent_vos' = <<>>
  /\ vi' = 1
  /\ mi' = 1
  /\ ok_vos' = EmptyDict
  /\ error_vos' = EmptyDict
  /\ vos_ok' = <<>>
  /\ vos_critical' = <<>>
  /\ exitcode' = "none"
  /\ locals' = {}
  /\ stepsDone' = NoSteps
  /\ attempts' = NoSteps
  /\ voSteps' = NoVoSteps
  /\ voHandler' = {}
  /\ mAttempts' = NoMembers
  /\ mRaised' = NoMembers
  /\ tsAtStart' = tsFile
  /\ tsWrite' = "none"
  /\ tsRead' = "none"
  /\ acquired' = FALSE
  /\ cached' = 0
  /\ fatal' = "none"
  /\ windowMods' = IF tsWrite = "written" THEN windowMods ELSE {}
  /\ UNCHANGED <<modVars, runsVars, fsVars, t1Vars, envVars, tsFile, status, nagios, lost>>

Next ==
  \/ Start
  \/ ReportAndExit
  \/ LockOrBork
  \/ InitLdap
  \/ ReadTimestamp
  \/ LookupUsers
  \/ ProcessUser
  \/ ProcessUsersReturn
  \/ LookupVos
  \/ ProcessVo
  \/ ProcessVoMember
  \/ ProcessVosReturn
  \/ MakeResult
  \/ WriteTimestamp
  \/ ReleaseOrBork

Spec == Init /\ [][Next]_vars

NextPasses ==
  \/ Next
  \/ Tick
  \/ LdapModify
  \/ OtherRun
  \/ NextRun

SpecPasses == InitPasses /\ [][NextPasses]_vars


(***************************************************************************)
(* The tier1c sync: lib/vsc/administration/sync.py and tier1c.py.          *)
(***************************************************************************)
STORAGE_USERS_LIMIT_WARNING == 1
STORAGE_USERS_LIMIT_CRITICAL == 10
STORAGE_QUOTA_LIMIT_WARNING == 1
STORAGE_QUOTA_LIMIT_CRITICAL == 5
STORAGE_PRJ_LIMIT_WARNING == 1
STORAGE_PRJ_LIMIT_CRITICAL == 2
VSC_TIER1C_SCRATCH == "dodrioscratch"

\* the names bound in the module namespace of sync.py: its imports, its
\* assignments and its class
SyncNames ==
  {"logging", "Sync", "update_user_status", "VscTier1cUser", "VscTier1cProject",
   "fancylogger", "log", "STORAGE_USERS_LIMIT_WARNING", "STORAGE_USERS_LIMIT_CRITICAL",
   "STORAGE_QUOTA_LIMIT_WARNING", "STORAGE_QUOTA_LIMIT_CRITICAL",
   "STORAGE_PRJ_LIMIT_WARNING", "STORAGE_PRJ_LIMIT_CRITICAL", "VSC_TIER1C_SCRATCH",
   "VscTier1cSync"}

Projects == {"proj_a", "proj_b"}

\* ascending order of the identifiers
IdOrder == <<"vsc40001", "vsc40002">>
PrjOrder == <<"proj_a", "proj_b">>

\* sorted(ids)
Sorted(ids, order) == SelectSeq(order, LAMBDA x : x \in ids)

\* prj.modified_members(datestamp) and prj.members
ModifiedMembers ==
  [p \in Projects |-> IF p = "proj_a" THEN <<"vsc40001", "vsc40002">> ELSE <<>>]

\* VscStorageBackend.__init__; the first four arguments say whether the
\* parameter is given (not None)
VscStorageBackend_init(storage, path_templates, storage_name, host_institute, fsbackend) ==
  IF (~storage \/ ~path_templates) /\ (~storage_name \/ ~host_institute)
    THEN "raise"
    ELSE IF fsbackend \in {"lustre", "gpfs"} THEN "ok" ELSE "raise"

\* Dodrio().fsbackend
DodrioFsBackend == "lustre"

\* VscTier1cUser.__init__ up to the backend: VscStorageBackend(storage=storage, dry_run=dry_run)
VscTier1cUser_init == VscStorageBackend_init(TRUE, FALSE, FALSE, TRUE, DodrioFsBackend)

\* VscTier1cProject.__init__ up to the backend:
\* VscStorageBackend(storage=storage, storage_name=storage_name, path_templates=path_templates, ...)
VscTier1cProject_init == VscStorageBackend_init(TRUE, TRUE, TRUE, TRUE, DodrioFsBackend)

\* what the calls made for the projects do: the projects whose project level
\* steps raise, the members whose steps raise, whether the project object has
\* an attribute prj_id (the class sets pjid)
PrjEnvs == [failPrj : SUBSET Projects, failMember : SUBSET Users, hasPrjId : BOOLEAN]

PrjRaised(ok, err, seen) == [raised |-> TRUE, ok_prj |-> ok, error_prj |-> err, seen |-> seen]

\* the member loop of process_projects (lines 119-128)
RECURSIVE PrjMembers(_, _, _, _, _, _)
PrjMembers(prj, members, j, ok, err, env) ==
  IF j > Len(members) THEN [raised |-> FALSE, ok |-> ok, err |-> err]
  ELSE IF ~env.hasPrjId THEN [raised |-> TRUE, ok |-> ok, err |-> err]
  ELSE IF members[j] \in env.failMember
    THEN PrjMembers(prj, members, j + 1, ok, MonoidDictSet(err, prj, <<members[j]>>), env)
    ELSE PrjMembers(prj, members, j + 1, MonoidDictSet(ok, prj, <<members[j]>>), err, env)

\* the loop of process_projects (lines 104-132)
RECURSIVE PrjLoop(_, _, _, _, _, _)
PrjLoop(ids, i, ok, err, seen, env) ==
  IF i > Len(ids) THEN [raised |-> FALSE, ok_prj |-> ok, error_prj |-> err, seen |-> seen]
  ELSE
    LET prj == ids[i]
        seen2 == Append(seen, prj)
        \* the outer except clause: it reads prj.prj_id and stores prj.members
        handler == IF env.hasPrjId
                     THEN PrjLoop(ids, i + 1, ok, MonoidDictSet(err, prj, ModifiedMembers[prj]), seen2, env)
                     ELSE PrjRaised(ok, err, seen2)
        inner == PrjMembers(prj, ModifiedMembers[prj], 1, ok, err, env)
    IN
      IF VscTier1cProject_init = "raise" THEN PrjRaised(ok, err, seen2)
      ELSE IF prj \in env.failPrj THEN handler
      ELSE IF Len(ModifiedMembers[prj]) > 0 /\ VscTier1cUser_init = "raise" THEN handler
      ELSE IF inner.raised THEN handler
      ELSE PrjLoop(ids, i + 1, inner.ok, inner.err, seen2, env)

\* process_projects(prj_ids, storage_name, datestamp, dry_run)
process_projects(prj_ids, storage_name, env) ==
  IF ~({"Monoid", "MonoidDict", "copy"} \subseteq SyncNames) THEN PrjRaised(<<>>, <<>>, <<>>)
  ELSE IF storage_name # VSC_TIER1C_SCRATCH THEN PrjRaised(<<>>, <<>>, <<>>)
  ELSE PrjLoop(Sorted(prj_ids, PrjOrder), 1, EmptyDict, EmptyDict, <<>>, env)

\* do(), line 149
storage_name == VSC_TIER1C_SCRATCH

\* the steps of the try block of process_t1_users:
\* 1 create_home_dir, 2 populate_home_dir, 3 update_user_status
NT1Steps == 3

\* the state in which do() is called, for the storage names in names
T1Start(names) ==
  /\ InitRun
  /\ RunsIdle
  /\ FsIdle
  /\ VoOldIdle
  /\ tsFile = 1
  /\ modTime = [e \in Entries |-> 1]
  /\ lock = "free"
  /\ faulty = TRUE
  /\ t1pc = "do"
  /\ t1opts \in [user : BOOLEAN, projects : BOOLEAN, dry_run : BOOLEAN]
  /\ t1in \in [accounts : UNION {Perms(S) : S \in SUBSET Users},
               quota : UNION {Perms(S) : S \in SUBSET Users},
               prjs : SUBSET Projects,
               prj_quota : SUBSET Projects,
               storage_name : names]
  /\ t1k = 1
  /\ t1users = NoT1Users
  /\ t1prj = NoT1Prj
  /\ t1seen = <<>>
  /\ thresholds = <<>>
  /\ t1ret = NoT1Ret
  /\ t1env = NoPrjEnv

\* the state in which do() is called
InitT1 == T1Start({storage_name})

T1Raise(exc) ==
  /\ t1pc' = "raised"
  /\ t1ret' = [kind |-> "raised", exc |-> exc]

\* variant of process_t1_users without the test of the storage name (lines 58-59)
T1DoUsers_mut ==
  /\ t1pc = "do"
  /\ IF ~t1opts.user
       THEN t1pc' = "projects" /\ UNCHANGED t1ret
       ELSE t1pc' = "t1_users" /\ UNCHANGED t1ret
  /\ t1k' = 1
  /\ UNCHANGED <<modVars, runsVars, fsVars, ldapVars, t1env, t1opts, t1in, t1users, t1prj, t1seen, thresholds>>

\* do(), lines 152-169: the user part up to the call of process_t1_users, and
\* process_t1_users lines 55-59
T1DoUsers ==
  /\ t1pc = "do"
  /\ IF ~t1opts.user
       THEN t1pc' = "projects" /\ UNCHANGED t1ret
       ELSE IF t1in.storage_name # VSC_TIER1C_SCRATCH
         THEN T1Raise("Exception")
         ELSE t1pc' = "t1_users" /\ UNCHANGED t1ret
  /\ t1k' = 1
  /\ UNCHANGED <<modVars, runsVars, fsVars, ldapVars, t1env, t1opts, t1in, t1users, t1prj, t1seen, thresholds>>

\* one iteration of the first loop of process_t1_users (lines 61-72)
T1ProcessUser ==
  /\ t1pc = "t1_users"
  /\ t1k <= Len(Sorted(Range(t1in.accounts), IdOrder))
  /\ LET vsc_id == Sorted(Range(t1in.accounts), IdOrder)[t1k] IN
       /\ t1seen' = Append(t1seen, vsc_id)
       /\ IF VscTier1cUser_init = "raise"
            THEN /\ T1Raise("Exception")
                 /\ UNCHANGED <<t1k, t1users>>
            ELSE /\ \E failAt \in 0..NT1Steps :
                      t1users' = [t1users EXCEPT
                                    !.ok_users = ok_users_after(@, vsc_id, failAt),
                                    !.error_users = error_users_after(@, vsc_id, failAt)]
                 /\ t1k' = t1k + 1
                 /\ UNCHANGED <<t1pc, t1ret>>
  /\ UNCHANGED <<modVars, runsVars, fsVars, ldapVars, t1env, t1opts, t1in, t1prj, thresholds>>

\* the first loop is over (line 74)
T1UsersDone ==
  /\ t1pc = "t1_users"
  /\ t1k > Len(Sorted(Range(t1in.accounts), IdOrder))
  /\ t1pc' = "t1_quota"
  /\ t1k' = 1
  /\ UNCHANGED <<modVars, runsVars, fsVars, ldapVars, t1env, t1opts, t1in, t1users, t1prj, t1seen, thresholds, t1ret>>

\* one iteration of the second loop of process_t1_users (lines 77-85);
\* VscTier1cUser.set_quota returns at once
T1ProcessQuota ==
  /\ t1pc = "t1_quota"
  /\ t1k <= Len(t1in.quota)
  /\ LET quota == t1in.quota[t1k] IN
       /\ t1seen' = Append(t1seen, quota)
       /\ IF VscTier1cUser_init = "raise"
            THEN /\ T1Raise("Exception")
                 /\ UNCHANGED <<t1k, t1users>>
            ELSE /\ t1users' = [t1users EXCEPT !.ok_quota = Append(@, quota)]
                 /\ t1k' = t1k + 1
                 /\ UNCHANGED <<t1pc, t1ret>>
  /\ UNCHANGED <<modVars, runsVars, fsVars, ldapVars, t1env, t1opts, t1in, t1prj, thresholds>>

\* process_t1_users returns (line 87)
T1UsersReturn ==
  /\ t1pc = "t1_quota"
  /\ t1k > Len(t1in.quota)
  /\ t1pc' = "projects"
  /\ UNCHANGED <<modVars, runsVars, fsVars, ldapVars, t1env, t1opts, t1in, t1k, t1users, t1prj, t1seen, thresholds, t1ret>>

\* do(), lines 179-205: the project part
T1DoProjects ==
  /\ t1pc = "projects"
  /\ IF ~t1opts.projects
       THEN /\ t1pc' = "finish"
            /\ UNCHANGED <<t1prj, t1seen, t1ret, t1env>>
       ELSE \E env \in PrjEnvs :
              LET r == process_projects(t1in.prjs \cup t1in.prj_quota, t1in.storage_name, env) IN
                /\ t1env' = env
                /\ t1seen' = t1seen \o r.seen
                /\ IF r.raised
                     THEN /\ T1Raise("NameError")
                          /\ UNCHANGED t1prj
                     ELSE /\ t1prj' = [ok_prj |-> r.ok_prj, error_prj |-> r.error_prj]
                          /\ t1pc' = "finish"
                          /\ UNCHANGED t1ret
  /\ UNCHANGED <<modVars, runsVars, fsVars, ldapVars, t1opts, t1in, t1k, t1users, thresholds>>

\* the statistics do() collects for the thresholds (lines 170-177, 202-205)
T1Stats ==
  (IF t1opts.user
     THEN [users_sync |-> Len(t1users.ok_users),
           users_sync_fail |-> Len(t1users.error_users),
           users_sync_fail_warning |-> STORAGE_USERS_LIMIT_WARNING,
           users_sync_fail_critical |-> STORAGE_USERS_LIMIT_CRITICAL,
           quota_sync |-> Len(t1users.ok_quota),
           quota_sync_fail |-> Len(t1users.error_quota),
           quota_sync_fail_warning |-> STORAGE_QUOTA_LIMIT_WARNING,
           quota_sync_fail_critical |-> STORAGE_QUOTA_LIMIT_CRITICAL]
     ELSE <<>>)
  @@
  (IF t1opts.projects
     THEN [prj_sync |-> PyLen(t1prj.ok_prj),
           prj_sync_fail |-> PyLen(t1prj.error_prj),
           prj_sync_fail_warning |-> STORAGE_PRJ_LIMIT_WARNING,
           prj_sync_fail_critical |-> STORAGE_PRJ_LIMIT_CRITICAL]
     ELSE <<>>)

\* do(), lines 207-212: a list and a MonoidDict cannot be added
T1Finish ==
  /\ t1pc = "finish"
  /\ thresholds' = T1Stats
  /\ IF Len(t1users.error_users) > 0 \/ Len(t1users.error_quota) > 0 \/ PyLen(t1prj.error_prj) > 0
       THEN IF t1opts.projects
              THEN T1Raise("TypeError")
              ELSE /\ t1ret' = [kind |-> "list", value |-> t1users.error_users \o t1users.error_quota]
                   /\ t1pc' = "returned"
       ELSE /\ t1ret' = [kind |-> "False"]
            /\ t1pc' = "returned"
  /\ UNCHANGED <<modVars, runsVars, fsVars, ldapVars, t1env, t1opts, t1in, t1k, t1users, t1prj, t1seen>>

NextT1 ==
  \/ T1DoUsers
  \/ T1ProcessUser
  \/ T1UsersDone
  \/ T1ProcessQuota
  \/ T1UsersReturn
  \/ T1DoProjects
  \/ T1Finish

SpecT1 == InitT1 /\ [][NextT1]_vars

\* process_t1_users and process_projects called with the storage name of
\* tier1c or with another one
StorageNames == {VSC_TIER1C_SCRATCH, "arcaninescratch"}

InitT1Call == T1Start(StorageNames)

SpecT1Call == InitT1Call /\ [][NextT1]_vars


(***************************************************************************)
(* Concurrently started runs of main() and the lock file.  Each run is     *)
(* main() reduced to what it does with the lock, the nagios record and     *)
(* its way out.                                                            *)
(***************************************************************************)
\* the positions between lock_or_bork and the release of the lock
Inside == {"fetch", "provision", "result", "write_ts", "release"}

InitRuns ==
  /\ InitRun
  /\ tsFile = 1
  /\ modTime = [e \in Entries |-> 1]
  /\ T1Idle
  /\ FsIdle
  /\ VoOldIdle
  /\ lock = "free"
  /\ faulty = TRUE
  /\ rpc = [r \in Runs |-> "idle"]
  /\ lockHolder = 0
  /\ routcome = [r \in Runs |-> "none"]

\* the except clause of main (lines 218-223) in run r
RunFatal(r) ==
  /\ routcome' = [routcome EXCEPT ![r] = "CRITICAL"]
  /\ lockHolder' = IF lockHolder = r THEN 0 ELSE lockHolder
  /\ rpc' = [rpc EXCEPT ![r] = "exited"]

\* lines 164-175: with the nagios flag the run reports and exits
RunStart(r) ==
  /\ rpc[r] = "idle"
  /\ \E n \in BOOLEAN : rpc' = [rpc EXCEPT ![r] = IF n THEN "exited" ELSE "lock"]
  /\ UNCHANGED <<modVars, fsVars, t1Vars, ldapVars, lockHolder, routcome>>

\* variant of lock_or_bork that takes the lock file whoever holds it
RunLockOrBork_mut(r) ==
  /\ rpc[r] = "lock"
  /\ lockHolder' = r
  /\ rpc' = [rpc EXCEPT ![r] = "fetch"]
  /\ UNCHANGED routcome
  /\ UNCHANGED <<modVars, fsVars, t1Vars, ldapVars>>

\* lines 177-178: lock_or_bork takes the lock file, or caches CRITICAL and exits
RunLockOrBork(r) ==
  /\ rpc[r] = "lock"
  /\ IF lockHolder = 0
       THEN /\ lockHolder' = r
            /\ rpc' = [rpc EXCEPT ![r] = "fetch"]
            /\ UNCHANGED routcome
       ELSE /\ routcome' = [routcome EXCEPT ![r] = "already running"]
            /\ rpc' = [rpc EXCEPT ![r] = "exited"]
            /\ UNCHANGED lockHolder
  /\ UNCHANGED <<modVars, fsVars, t1Vars, ldapVars>>

\* lines 181-203: the LDAP binding, the timestamp, VscUser.lookup
RunFetch(r) ==
  /\ rpc[r] = "fetch"
  /\ \E raises \in BOOLEAN :
       IF raises
         THEN RunFatal(r)
         ELSE /\ rpc' = [rpc EXCEPT ![r] = "provision"]
              /\ UNCHANGED <<lockHolder, routcome>>
  /\ UNCHANGED <<modVars, fsVars, t1Vars, ldapVars>>

\* lines 205-216: process_users, VscVo.lookup, process_vos
RunProvision(r) ==
  /\ rpc[r] = "provision"
  /\ \E raises \in BOOLEAN :
       IF raises
         THEN RunFatal(r)
         ELSE /\ rpc' = [rpc EXCEPT ![r] = "result"]
              /\ UNCHANGED <<lockHolder, routcome>>
  /\ UNCHANGED <<modVars, fsVars, t1Vars, ldapVars>>

\* lines 225-229: NameError when users_ok was never bound
RunResult(r) ==
  /\ rpc[r] = "result"
  /\ \E user \in BOOLEAN :
       rpc' = [rpc EXCEPT ![r] = IF {"users_ok"} \subseteq (IF user THEN {"users_ok"} ELSE {"user_ok"})
                                   THEN "write_ts" ELSE "crashed"]
  /\ UNCHANGED <<lockHolder, routcome>>
  /\ UNCHANGED <<modVars, fsVars, t1Vars, ldapVars>>

\* lines 230-237
RunWriteTimestamp(r) ==
  /\ rpc[r] = "write_ts"
  /\ \E raises \in BOOLEAN :
       routcome' = [routcome EXCEPT ![r] = IF raises THEN "WARNING" ELSE "OK"]
  /\ rpc' = [rpc EXCEPT ![r] = "release"]
  /\ UNCHANGED lockHolder
  /\ UNCHANGED <<modVars, fsVars, t1Vars, ldapVars>>

\* lines 238-240: release_or_bork
RunRelease(r) ==
  /\ rpc[r] = "release"
  /\ lockHolder' = IF lockHolder = r THEN 0 ELSE lockHolder
  /\ rpc' = [rpc EXCEPT ![r] = "done"]
  /\ UNCHANGED routcome
  /\ UNCHANGED <<modVars, fsVars, t1Vars, ldapVars>>

NextRuns ==
  \E r \in Runs :
    \/ RunStart(r)
    \/ RunLockOrBork(r)
    \/ RunFetch(r)
    \/ RunProvision(r)
    \/ RunResult(r)
    \/ RunWriteTimestamp(r)
    \/ RunRelease(r)

SpecRuns == InitRuns /\ [][NextRuns]_vars


(***************************************************************************)
(* Provisioning on the storage backend: the methods of VscVo (vo.py) that  *)
(* process_vos calls for one VO and its members, the methods of            *)
(* VscTier1cProject and VscStorageBackend (tier1c.py) for one project, and *)
(* notify_user_directory_created for one user, run as successive passes    *)
(* over the same change set.  The backend keeps filesets, directories,     *)
(* modes, owners and quota; a backend operation either takes effect or     *)
(* raises, the same way in every pass.                                     *)
(***************************************************************************)
\* the source quota (KiB) runs from 0 to MaxQuota
MaxQuota == 3
\* number of passes over the same change set
MaxRounds == 2

FsUser == "vsc40001"
FsVo == "gvo00001"
FsProject == "proj_a"

Statuses == {"new", "notify", "active"}

\* the operations of GpfsOperations / LustreOperations that change the backend
GpfsOps ==
  {"make_dir", "make_fileset", "chmod", "chown", "set_fileset_quota", "set_fileset_grace",
   "set_user_quota", "create_stat_directory"}

\* vsc.quota_soft_fraction, as <<numerator, denominator>>
Fractions == {<<1, 2>>, <<19, 20>>, <<99, 100>>}

\* vsc.vo_storage_grace_time, in days
GraceTime == 7
\* int(self.gidNumber) of the VO
VoGid == 2001
\* moderator.vsc_id_number and self.prj.vsc_id_number
ModeratorUid == 1001
PrjGid == 3001
\* pwd.getpwnam('nobody').pw_uid
NobodyUid == 65534
\* the modes 0700 (vo.py) and 0o770 (tier1c.py)
VoMode == 448
PrjMode == 504
\* Dodrio: quota_prj
DodrioQuotaPrj == 1048576

\* the names bound in the module namespace of tier1c.py
TierNames ==
  {"os", "pwd", "VscAccountPageUser", "VscAccountPageVo", "fancylogger", "GENT", "VSC",
   "VscStorage", "Storage", "mkVscAccount", "LustreOperations", "GpfsOperations", "log",
   "PROJECT_SUBDIR", "PROJ", "Dodrio", "VscStorageBackend", "VscTier1cUser", "VscTier1cProject"}

\* int(x * fraction) for a non-negative integer x
SoftOf(x, frac) == (x \div frac[2]) * frac[1] + ((x % frac[2]) * frac[1]) \div frac[2]

\* a call of a backend operation by a method
GpfsCall(by, op, target, who, a, b) ==
  [by |-> by, op |-> op, target |-> target, who |-> who, a |-> a, b |-> b]

\* whether the backend raises for the call: an operation that is out of
\* order, or make_fileset for a fileset that exists
GpfsRaises(g, c) ==
  \/ c.op \in fin.failing
  \/ c.op = "make_fileset" /\ c.target \in g.filesets

\* the backend after the call
GpfsApply(g, c) ==
  CASE c.op = "make_dir" -> [g EXCEPT !.dirs = @ \cup {c.target}]
    [] c.op = "make_fileset" -> [g EXCEPT !.filesets = @ \cup {c.target}]
    [] c.op = "chmod" -> [g EXCEPT !.mode = (c.target :> c.a) @@ @]
    [] c.op = "chown" -> [g EXCEPT !.owner = (c.target :> <<c.a, c.b>>) @@ @]
    [] c.op = "set_fileset_quota" -> [g EXCEPT !.quota = (c.target :> <<c.a, c.b>>) @@ @]
    [] c.op = "set_fileset_grace" -> [g EXCEPT !.grace = (c.target :> c.a) @@ @]
    [] c.op = "set_user_quota" -> [g EXCEPT !.uquota = (<<c.target, c.who>> :> <<c.a, c.b>>) @@ @]
    [] OTHER -> g

\* the calls of a method, issued in order until one raises
RECURSIVE RunCalls(_, _, _, _)
RunCalls(g, log, calls, i) ==
  IF i > Len(calls) THEN [g |-> g, log |-> log, exc |-> "none"]
  ELSE IF GpfsRaises(g, calls[i]) THEN [g |-> g, log |-> Append(log, calls[i]), exc |-> "Exception"]
  ELSE RunCalls(GpfsApply(g, calls[i]), Append(log, calls[i]), calls, i + 1)

\* variant of VscVo._create_fileset without the test of get_fileset_info
VscVo_create_fileset_mut(g, by, vo, quota) ==
  <<GpfsCall(by, "make_dir", "vos", "", 0, 0), GpfsCall(by, "make_fileset", vo, "", 0, 0),
    GpfsCall(by, "chmod", vo, "", VoMode, 0), GpfsCall(by, "chown", vo, "", VoGid, VoGid)>>

\* VscVo._create_fileset(filesystem_name, path, quota): the quota is not read
VscVo_create_fileset(g, by, vo, quota) ==
  (IF vo \notin g.filesets
     THEN <<GpfsCall(by, "make_dir", "vos", "", 0, 0), GpfsCall(by, "make_fileset", vo, "", 0, 0)>>
     ELSE <<>>)
  \o <<GpfsCall(by, "chmod", vo, "", VoMode, 0), GpfsCall(by, "chown", vo, "", VoGid, VoGid)>>

\* VscVo._data_path(): self.storage.data_name raises AttributeError when the
\* storage instance has no such attribute
data_path == IF "data_name" \in fin.failing THEN "AttributeError" ELSE "ok"

\* the except AttributeError clauses of vo.py: the exception is logged and
\* the method returns
Logged(g, log) == [g |-> g, log |-> log, exc |-> "none"]

\* VscVo.create_data_fileset()
create_data_fileset(g, log, vo) ==
  IF data_path = "AttributeError" THEN Logged(g, log)
  ELSE RunCalls(g, log, VscVo_create_fileset(g, "create_data_fileset", vo, fin.dataQuota), 1)

\* VscVo._set_quota(path_function, quota), quota in KiB
VscVo_set_quota(by, vo, quota) ==
  <<GpfsCall(by, "set_fileset_quota", vo, "", SoftOf(quota * 1024, fin.frac), quota * 1024),
    GpfsCall(by, "set_fileset_grace", vo, "", GraceTime, 0)>>

\* VscVo.set_data_quota()
set_data_quota(g, log, vo) ==
  IF data_path = "AttributeError" THEN Logged(g, log)
  ELSE RunCalls(g, log, VscVo_set_quota("set_data_quota", vo, fin.dataQuota), 1)

\* VscVo._set_member_quota(path_function, member, quota), quota in bytes
VscVo_set_member_quota(by, vo, member, quota) ==
  <<GpfsCall(by, "set_user_quota", vo, member, SoftOf(quota, fin.frac), quota)>>

\* VscVo.set_member_data_quota(member): int(self.dataQuota) / 2 * 1024 with
\* the integer division of Python 2
set_member_data_quota(g, log, vo, member) ==
  IF data_path = "AttributeError" THEN Logged(g, log)
  ELSE RunCalls(g, log,
                VscVo_set_member_quota("set_member_data_quota", vo, member,
                                       (fin.dataQuota \div 2) * 1024), 1)

\* VscStorageBackend._create_fileset(path, name, mode=0o770)
VscStorageBackend_create_fileset(g, by, name) ==
  (IF name \notin g.filesets
     THEN <<GpfsCall(by, "make_dir", "projects", "", 0, 0), GpfsCall(by, "make_fileset", name, "", 0, 0)>>
     ELSE <<>>)
  \o <<GpfsCall(by, "chmod", name, "", PrjMode, 0)>>

\* VscStorageBackend.create_project_fileset(pjname, moderator_id, group_owner_id)
create_project_fileset(g, by, pjname, moderator_id, group_owner_id) ==
  VscStorageBackend_create_fileset(g, by, pjname)
  \o <<GpfsCall(by, "chown", pjname, "", moderator_id, group_owner_id)>>

\* VscTier1cProject.create_fileset(): lookup is what line 219 does, "ok" or
\* the exception it raises.  An exception makes Python evaluate the except
\* clauses in order, HTTPError first; after a fallback fileset_group_owner_id
\* is unbound, which the second try block turns into an Exception.
create_fileset(g, log, pjid, lookup) ==
  IF lookup = "ok"
    THEN RunCalls(g, log, create_project_fileset(g, "create_fileset", pjid, ModeratorUid, PrjGid), 1)
  ELSE IF "HTTPError" \notin TierNames
    THEN [g |-> g, log |-> log, exc |-> "NameError"]
  ELSE [g |-> g, log |-> log, exc |-> "Exception"]

\* VscStorageBackend._set_fileset_quota(path, name, quota); rf is
\* storage.data_replication_factor, 0 when the storage has no such attribute
VscStorageBackend_set_fileset_quota(g, log, by, name, quota, rf) ==
  IF rf = 0 THEN [g |-> g, log |-> log, exc |-> "Exception"]
  ELSE RunCalls(g, log,
                <<GpfsCall(by, "set_fileset_quota", name, "",
                           SoftOf(quota * 1024 * rf, fin.frac), quota * 1024 * rf),
                  GpfsCall(by, "set_fileset_grace", name, "", GraceTime, 0)>>, 1)

\* VscStorageBackend.set_project_quota(pjname, quota): quota is quota.hard,
\* 0 when there is no quota record
set_project_quota(g, log, by, pjname, quota, rf) ==
  VscStorageBackend_set_fileset_quota(g, log, by, pjname,
                                      IF quota = 0 THEN DodrioQuotaPrj ELSE quota, rf)

\* VscTier1cProject.prj_quota: the cache is never filled
prj_quota(cache) == IF cache = 0 THEN 0 ELSE cache

\* VscTier1cProject.set_quota()
set_quota(g, log, pjid, cache, rf) ==
  set_project_quota(g, log, "set_quota", pjid, prj_quota(cache), rf)


\* the fileset of the VO and of the project exist, with modes and owners of
\* an earlier administration
ExistingGpfs ==
  [filesets |-> {FsVo, FsProject}, dirs |-> {"vos", "projects"},
   mode |-> (FsVo :> 0) @@ (FsProject :> 0),
   owner |-> (FsVo :> <<0, 0>>) @@ (FsProject :> <<0, 0>>),
   quota |-> <<>>, grace |-> <<>>, uquota |-> <<>>]

\* what is out of order: nothing, one operation of the backend, the symlink
\* step of VscUser, or the storage instance of the VO, which then has no
\* attribute data_name
FailChoices ==
  {{}} \cup {{op} : op \in (GpfsOps \ {"create_stat_directory"})
                            \cup {"set_member_data_symlink", "data_name"}}

\* rf is storage.data_replication_factor, 0 when the storage has no such
\* attribute; record is the hard limit (KiB) of the quota record the project
\* has on the account page, 0 when it has none; cache is what _quota_cache
\* holds, nothing or that record.  The default quota of Dodrio with a factor
\* of 2 is 2^31 bytes, which is not a 32 bit integer: the factor 2 is paired
\* with a quota record.  The pass never reads scratchQuota.
FsInputs ==
  {f \in [dry_run : BOOLEAN, status : Statuses, dataQuota : 0..MaxQuota, frac : Fractions,
          failing : FailChoices, lookup : {"ok", "HTTPError", "IndexError"}, rf : {0, 1, 2},
          cache : {0, 1}, record : {0, 1}, exists : BOOLEAN, scratchQuota : {0}] :
     /\ f.cache \in {0, f.record}
     /\ f.rf = 2 => f.cache # 0}

InitFs ==
  /\ InitRun
  /\ tsFile = 1
  /\ modTime = [e \in Entries |-> 1]
  /\ lock = "free"
  /\ faulty = TRUE
  /\ T1Idle
  /\ RunsIdle
  /\ VoOldIdle
  /\ fpc = "user"
  /\ fround = 1
  /\ fin \in FsInputs
  /\ fmi = 1
  /\ gpfs = IF fin.exists THEN ExistingGpfs ELSE NoGpfs
  /\ fcalls = <<>>
  /\ fstatus = fin.status
  /\ fexc = <<>>
  /\ ffail = {}
  /\ fsnap = <<>>

\* a method has returned or raised
MethodResult(method, target, exc) == [method |-> method, target |-> target, exc |-> exc]

\* process_users, line 100, for the user
FsProcessUser ==
  /\ fpc = "user"
  /\ fstatus' = notify_user_directory_created(fstatus, fin.dry_run)
  /\ fpc' = "vo_fileset"
  /\ UNCHANGED <<modVars, runsVars, t1Vars, ldapVars, fround, fin, fmi, gpfs, fcalls, fexc, ffail, fsnap>>

\* process_vos, line 125, for the VO
FsCreateDataFileset ==
  /\ fpc = "vo_fileset"
  /\ LET r == create_data_fileset(gpfs, fcalls, FsVo) IN
       /\ gpfs' = r.g
       /\ fcalls' = r.log
       /\ fexc' = Append(fexc, MethodResult("create_data_fileset", FsVo, r.exc))
       /\ ffail' = IF r.exc # "none" THEN ffail \cup {FsVo} ELSE ffail
       /\ fpc' = IF r.exc # "none" THEN "prj_fileset" ELSE "vo_quota"
  /\ UNCHANGED <<modVars, runsVars, t1Vars, ldapVars, fround, fin, fmi, fstatus, fsnap>>

\* process_vos, line 126, for the VO
FsSetDataQuota ==
  /\ fpc = "vo_quota"
  /\ LET r == set_data_quota(gpfs, fcalls, FsVo) IN
       /\ gpfs' = r.g
       /\ fcalls' = r.log
       /\ fexc' = Append(fexc, MethodResult("set_data_quota", FsVo, r.exc))
       /\ ffail' = IF r.exc # "none" THEN ffail \cup {FsVo} ELSE ffail
       /\ fpc' = IF r.exc # "none" THEN "prj_fileset" ELSE "vo_member"
  /\ fmi' = 1
  /\ UNCHANGED <<modVars, runsVars, t1Vars, ldapVars, fround, fin, fstatus, fsnap>>

\* process_vos, lines 128-135, for one member of the VO
FsProcessVoMember ==
  /\ fpc = "vo_member"
  /\ LET member == memberUid[FsVo][fmi]
         r == set_member_data_quota(gpfs, fcalls, FsVo, member)
         exc == IF r.exc = "none" /\ "set_member_data_symlink" \in fin.failing
                  THEN "Exception" ELSE r.exc
     IN
       /\ gpfs' = r.g
       /\ fcalls' = r.log
       /\ fexc' = Append(fexc, MethodResult("set_member_data_quota", member, exc))
       /\ ffail' = IF exc # "none" THEN ffail \cup {member} ELSE ffail
  /\ IF fmi < Len(memberUid[FsVo])
       THEN fmi' = fmi + 1 /\ UNCHANGED fpc
       ELSE fpc' = "prj_fileset" /\ UNCHANGED fmi
  /\ UNCHANGED <<modVars, runsVars, t1Vars, ldapVars, fround, fin, fstatus, fsnap>>

\* VscTier1cProject.create_fileset() for the project
FsCreateProjectFileset ==
  /\ fpc = "prj_fileset"
  /\ LET r == create_fileset(gpfs, fcalls, FsProject, fin.lookup) IN
       /\ gpfs' = r.g
       /\ fcalls' = r.log
       /\ fexc' = Append(fexc, MethodResult("create_fileset", FsProject, r.exc))
       /\ ffail' = IF r.exc # "none" THEN ffail \cup {FsProject} ELSE ffail
       /\ fpc' = IF r.exc # "none" THEN "end" ELSE "prj_quota"
  /\ UNCHANGED <<modVars, runsVars, t1Vars, ldapVars, fround, fin, fmi, fstatus, fsnap>>

\* VscTier1cProject.set_quota() for the project
FsSetProjectQuota ==
  /\ fpc = "prj_quota"
  /\ LET r == set_quota(gpfs, fcalls, FsProject, fin.cache, fin.rf) IN
       /\ gpfs' = r.g
       /\ fcalls' = r.log
       /\ fexc' = Append(fexc, MethodResult("set_quota", FsProject, r.exc))
       /\ ffail' = IF r.exc # "none" THEN ffail \cup {FsProject} ELSE ffail
  /\ fpc' = "end"
  /\ UNCHANGED <<modVars, runsVars, t1Vars, ldapVars, fround, fin, fmi, fstatus, fsnap>>

\* the pass is over; the next pass handles the same entities again
FsEndPass ==
  /\ fpc = "end"
  /\ fsnap' = Append(fsnap, [gpfs |-> gpfs, status |-> fstatus, fail |-> ffail, calls |-> fcalls])
  /\ IF fround < MaxRounds
       THEN /\ fround' = fround + 1
            /\ fpc' = "user"
            /\ fcalls' = <<>>
            /\ fexc' = <<>>
            /\ ffail' = {}
       ELSE /\ fpc' = "finished"
            /\ UNCHANGED <<fround, fcalls, fexc, ffail>>
  /\ UNCHANGED <<modVars, runsVars, t1Vars, ldapVars, fin, fmi, gpfs, fstatus>>

NextFs ==
  \/ FsProcessUser
  \/ FsCreateDataFileset
  \/ FsSetDataQuota
  \/ FsProcessVoMember
  \/ FsCreateProjectFileset
  \/ FsSetProjectQuota
  \/ FsEndPass

SpecFs == InitFs /\ [][NextFs]_vars


(***************************************************************************)
(* SpecDoEnd: the end of do() (sync.py, lines 207-212) applied to every    *)
(* content of the failure collections and every combination of the flags.  *)
(***************************************************************************)
\* the lists of users without repetition
UserLists == UNION {Perms(S) : S \in SUBSET Users}

\* the MonoidDicts process_projects can hold for one project
PrjDicts == {EmptyDict, MonoidDictSet(EmptyDict, "proj_a", <<"vsc40001">>)}

\* do() at line 207: users_ok, users_fail, quota_ok, quota_fail are the lists
\* of line 152-153 or what process_t1_users returned, prj_ok and prj_fail the
\* lists of line 179 or what process_projects returned
InitDoEnd ==
  /\ InitRun
  /\ RunsIdle
  /\ FsIdle
  /\ VoOldIdle
  /\ tsFile = 1
  /\ modTime = [e \in Entries |-> 1]
  /\ lock = "free"
  /\ faulty = TRUE
  /\ t1pc = "finish"
  /\ t1opts \in [user : BOOLEAN, projects : BOOLEAN, dry_run : {FALSE}]
  /\ t1in = [accounts |-> <<>>, quota |-> <<>>, prjs |-> {}, prj_quota |-> {},
             storage_name |-> "dodrioscratch"]
  /\ t1k = 1
  /\ t1users \in IF t1opts.user
                   THEN [ok_users : UserLists, error_users : UserLists,
                         ok_quota : {<<>>}, error_quota : UserLists]
                   ELSE {NoT1Users}
  /\ t1prj \in IF t1opts.projects
                 THEN [ok_prj : PrjDicts, error_prj : PrjDicts]
                 ELSE {NoT1Prj}
  /\ t1seen = <<>>
  /\ thresholds = <<>>
  /\ t1ret = NoT1Ret
  /\ t1env = NoPrjEnv

NextDoEnd == T1Finish

SpecDoEnd == InitDoEnd /\ [][NextDoEnd]_vars


(***************************************************************************)
(* SpecMember: the member quota methods of VscVo (vo.py) and of            *)
(* VscTier1cProject (tier1c.py), applied to each member of one VO and one  *)
(* project whose filesets exist.                                           *)
(***************************************************************************)
\* the scratch fileset of the VO
FsVoScratch == "gvo00001/scratch"

\* VscVo._scratch_path(): self.storage.scratch_name raises AttributeError
\* when the storage instance has no such attribute
scratch_path == IF "scratch_name" \in fin.failing THEN "AttributeError" ELSE "ok"

\* VscVo.set_member_scratch_quota(member): int(self.dataQuota) / 2 * 1024
set_member_scratch_quota(g, log, vo, member) ==
  IF scratch_path = "AttributeError" THEN Logged(g, log)
  ELSE RunCalls(g, log,
                VscVo_set_member_quota("set_member_scratch_quota", FsVoScratch, member,
                                       (fin.dataQuota \div 2) * 1024), 1)

\* VscTier1cProject.set_member_scratch_quota(member): returns at once
VscTier1cProject_set_member_scratch_quota(g, log, member) == [g |-> g, log |-> log, exc |-> "none"]

MemberInputs ==
  [dry_run : {FALSE}, status : {"active"}, dataQuota : 0..MaxQuota, scratchQuota : 0..MaxQuota,
   frac : Fractions, failing : {{}, {"set_user_quota"}, {"data_name"}, {"scratch_name"}},
   lookup : {"ok"}, rf : {1}, cache : {0}, record : {0}, exists : {TRUE}]

InitMember ==
  /\ InitRun
  /\ tsFile = 1
  /\ modTime = [e \in Entries |-> 1]
  /\ lock = "free"
  /\ faulty = TRUE
  /\ T1Idle
  /\ RunsIdle
  /\ VoOldIdle
  /\ fpc = "m_data"
  /\ fround = 1
  /\ fin \in MemberInputs
  /\ fmi = 1
  /\ gpfs = ExistingGpfs
  /\ fcalls = <<>>
  /\ fstatus = fin.status
  /\ fexc = <<>>
  /\ ffail = {}
  /\ fsnap = <<>>

\* a member method was applied to a member and has returned or raised
MemberStep(method, r, next) ==
  /\ gpfs' = r.g
  /\ fcalls' = r.log
  /\ fexc' = Append(fexc, MethodResult(method, memberUid[FsVo][fmi], r.exc))
  /\ ffail' = IF r.exc # "none" THEN ffail \cup {memberUid[FsVo][fmi]} ELSE ffail
  /\ fpc' = next
  /\ UNCHANGED <<modVars, runsVars, t1Vars, ldapVars, fround, fin, fmi, fstatus, fsnap>>

\* vo.set_member_data_quota(member)
MbSetMemberDataQuota ==
  /\ fpc = "m_data"
  /\ MemberStep("set_member_data_quota",
                set_member_data_quota(gpfs, fcalls, FsVo, memberUid[FsVo][fmi]), "m_scratch")

\* vo.set_member_scratch_quota(member)
MbSetMemberScratchQuota ==
  /\ fpc = "m_scratch"
  /\ MemberStep("set_member_scratch_quota",
                set_member_scratch_quota(gpfs, fcalls, FsVo, memberUid[FsVo][fmi]), "m_prj")

\* prj.set_member_scratch_quota(member)
MbPrjSetMemberScratchQuota ==
  /\ fpc = "m_prj"
  /\ MemberStep("prj.set_member_scratch_quota",
                VscTier1cProject_set_member_scratch_quota(gpfs, fcalls, memberUid[FsVo][fmi]),
                "m_next")

\* the next member
MbNextMember ==
  /\ fpc = "m_next"
  /\ IF fmi < Len(memberUid[FsVo])
       THEN fmi' = fmi + 1 /\ fpc' = "m_data"
       ELSE fpc' = "m_done" /\ UNCHANGED fmi
  /\ UNCHANGED <<modVars, runsVars, t1Vars, ldapVars, fround, fin, gpfs, fcalls, fstatus, fexc, ffail, fsnap>>

NextMember ==
  \/ MbSetMemberDataQuota
  \/ MbSetMemberScratchQuota
  \/ MbPrjSetMemberScratchQuota
  \/ MbNextMember

SpecMember == InitMember /\ [][NextMember]_vars


(***************************************************************************)
(* SpecVoOld: the moderators of a VoOld instance (vo.py, lines 186-374).   *)
(* The instance is constructed, bound to an entry of the LDAP by load() or *)
(* add(), and then add_moderator and delete_moderator are called on it.    *)
(* __setup binds cn, description, gid_number, institute, fairshare and     *)
(* moderators with a trailing comma, so each of them is a tuple of one     *)
(* element.                                                                *)
(***************************************************************************)
\* number of calls of add_moderator and delete_moderator in one behaviour
MaxCalls == 2

ModeratorIds == {"vsc40001", "vsc40002", "vsc40003"}

\* the names bound in the module namespace of vo.py
VoNames ==
  {"os", "re", "PIDLockFile", "fancylogger", "Institute", "VscUser", "VSC", "Muk",
   "CentralStorage", "GpfsOperations", "VscLdapGroup", "logger", "VO_PREFIX", "DEFAULT_VO",
   "INSTITUTE_VOS", "VscVo", "VoOld"}

\* raise of the exception class with the given name
Raise(name) == IF name \in VoNames THEN name ELSE "NameError"

\* a == b for Python values
PyEq(a, b) == a.t = b.t /\ a.v = b.v

\* x in c for a list or a tuple c
PyIn(x, c) == \E i \in 1..Len(c.v) : PyEq(c.v[i], x)

\* the items of a list after list.remove(x)
RECURSIVE ListRemove(_, _)
ListRemove(items, x) ==
  IF items = <<>> THEN <<>>
  ELSE IF PyEq(Head(items), x) THEN Tail(items)
  ELSE <<Head(items)>> \o ListRemove(Tail(items), x)

\* the list of strings of a sequence of ids, and back
StrList(ids) == PyList([i \in 1..Len(ids) |-> PyStr(ids[i])])
IdsOf(list) == [i \in 1..Len(list.v) |-> list.v[i].v]

\* the non-empty sequences of distinct ids of at most two moderators
ModeratorLists ==
  {<<a>> : a \in ModeratorIds}
    \cup {<<p[1], p[2]>> : p \in {q \in ModeratorIds \X ModeratorIds : q[1] # q[2]}}

\* VoOld.__setup(ldap_attributes) with attributes, lines 211-218
VoOld_setup(moderator) ==
  [exists |-> TRUE, moderators |-> PyTuple(<<moderator>>),
   institute |-> PyTuple(<<PyStr("Institute")>>)]

\* the result of a method of the instance
VoResult(vo, ldap, ret) == [vo |-> vo, ldap |-> ldap, ret |-> ret]

\* VoOld.add_member(member_uid), lines 285-302: the name Vo is read at line
\* 299 or at line 302
VoOld_add_member == Raise("Vo")

\* VoOld.add_moderator(member_uid); found: the search of line 337 finds the
\* user in this VO or in the default VO; modify: what group_modify does
add_moderator(vo, ldap, member_uid, found, modify) ==
  IF ~vo.exists THEN VoResult(vo, ldap, "None")
  ELSE IF vo.institute.t = "tuple" THEN VoResult(vo, ldap, "AttributeError")
  ELSE IF found THEN VoResult(vo, ldap, "None")
  ELSE IF VoOld_add_member # "none" THEN VoResult(vo, ldap, VoOld_add_member)
  ELSE IF PyIn(PyStr(member_uid), vo.moderators) THEN VoResult(vo, ldap, "self")
  ELSE IF vo.moderators.t # "list" THEN VoResult(vo, ldap, "TypeError")
  ELSE IF modify # "ok" THEN VoResult(vo, ldap, modify)
  ELSE LET moderators == Append(vo.moderators.v, PyStr(member_uid)) IN
         VoResult([vo EXCEPT !.moderators = PyList(moderators)],
                  IdsOf(PyList(moderators)), "self")

\* VoOld.delete_moderator(member_uid): moderators at line 366 is the object
\* self.moderators itself, which line 367 changes in place
delete_moderator(vo, ldap, member_uid, modify) ==
  IF ~vo.exists THEN VoResult(vo, ldap, "None")
  ELSE IF ~PyIn(PyStr(member_uid), vo.moderators)
    THEN VoResult(vo, ldap, Raise("NoSuchVoModeratorError"))
  ELSE IF vo.moderators.t # "list" THEN VoResult(vo, ldap, "AttributeError")
  ELSE LET moderators == ListRemove(vo.moderators.v, PyStr(member_uid))
           changed == [vo EXCEPT !.moderators = PyList(moderators)]
       IN
         IF moderators = <<>> THEN VoResult(changed, ldap, "None")
         ELSE IF modify # "ok" THEN VoResult(changed, ldap, modify)
         ELSE VoResult(changed, IdsOf(PyList(moderators)), "self")

\* before the constructor: the entry of the VO in the LDAP has moderators, or
\* there is no entry yet
InitVoOld ==
  /\ InitRun
  /\ tsFile = 1
  /\ modTime = [e \in Entries |-> 1]
  /\ lock = "free"
  /\ faulty = TRUE
  /\ T1Idle
  /\ RunsIdle
  /\ FsIdle
  /\ mpc = "new"
  /\ mvo = [exists |-> FALSE, moderators |-> PyNone, institute |-> PyNone]
  /\ mldap \in {<<>>} \cup ModeratorLists
  /\ mret = NoCall
  /\ mn = 0

\* VoOld.__init__(institute_name), lines 193-200: line 194 hands
\* institute_name to the next __init__ of the method resolution order, which
\* is object.__init__ for an instance of VoOld itself and raises TypeError;
\* a subclass with another base goes on
VoOldInit ==
  /\ mpc = "new"
  /\ \E cls \in {"VoOld", "subclass"} :
       IF cls = "VoOld"
         THEN /\ mpc' = "raised"
              /\ mret' = [call |-> "__init__", arg |-> "", ret |-> "TypeError"]
         ELSE /\ mpc' = "constructed"
              /\ UNCHANGED mret
  /\ UNCHANGED <<runsVars, t1Vars, ldapVars, fsVars, mvo, mldap, mn>>

\* VoOld.load(vo_name), lines 222-233: the search raises, finds nothing or
\* returns the entry, whose moderator attribute is a list of strings or,
\* with one value, a string
VoLoad ==
  /\ mpc = "constructed"
  /\ \E search \in {"ok", "Exception"}, rep \in {"list", "str"} :
       IF search # "ok"
         THEN /\ mpc' = "raised"
              /\ mret' = [call |-> "load", arg |-> "", ret |-> search]
              /\ UNCHANGED mvo
       ELSE IF mldap = <<>>
         THEN /\ mpc' = "loaded"
              /\ mvo' = [mvo EXCEPT !.exists = FALSE]
              /\ mret' = [call |-> "load", arg |-> "", ret |-> Raise("NoSuchVoError")]
       ELSE /\ mpc' = "loaded"
            /\ mvo' = VoOld_setup(IF rep = "str" /\ Len(mldap) = 1
                                    THEN PyStr(mldap[1]) ELSE StrList(mldap))
            /\ mret' = [call |-> "load", arg |-> "", ret |-> "self"]
  /\ UNCHANGED <<runsVars, t1Vars, ldapVars, fsVars, mldap, mn>>

\* VoOld.add(moderator_uid, description), lines 259-282, for a VO that has no
\* entry yet: a call made before group_add returns raises, or the entry is
\* added and __setup is given the attributes, with the moderator as a string
VoAdd ==
  /\ mpc = "constructed"
  /\ mldap = <<>>
  /\ \E moderator_uid \in ModeratorIds, group_add \in {"ok", "Exception"} :
       IF group_add # "ok"
         THEN /\ mpc' = "raised"
              /\ mret' = [call |-> "add", arg |-> moderator_uid, ret |-> group_add]
              /\ UNCHANGED <<mvo, mldap>>
         ELSE /\ mpc' = "loaded"
              /\ mldap' = <<moderator_uid>>
              /\ mvo' = VoOld_setup(PyStr(moderator_uid))
              /\ mret' = [call |-> "add", arg |-> moderator_uid, ret |-> "None"]
  /\ UNCHANGED <<runsVars, t1Vars, ldapVars, fsVars, mn>>

\* a call of a method on the instance
VoCall(call, member_uid, r) ==
  /\ mvo' = r.vo
  /\ mldap' = r.ldap
  /\ mret' = [call |-> call, arg |-> member_uid, ret |-> r.ret]
  /\ mn' = mn + 1
  /\ UNCHANGED <<runsVars, t1Vars, ldapVars, fsVars, mpc>>

VoAddModerator ==
  /\ mpc = "loaded"
  /\ mn < MaxCalls
  /\ \E member_uid \in ModeratorIds, found \in BOOLEAN, modify \in {"ok", "Exception"} :
       VoCall("add_moderator", member_uid, add_moderator(mvo, mldap, member_uid, found, modify))

VoDeleteModerator ==
  /\ mpc = "loaded"
  /\ mn < MaxCalls
  /\ \E member_uid \in ModeratorIds, modify \in {"ok", "Exception"} :
       VoCall("delete_moderator", member_uid, delete_moderator(mvo, mldap, member_uid, modify))

NextVoOld ==
  \/ VoOldInit
  \/ VoLoad
  \/ VoAdd
  \/ VoAddModerator
  \/ VoDeleteModerator

SpecVoOld == InitVoOld /\ [][NextVoOld]_vars


(***************************************************************************)
(* Properties.                                                             *)
(***************************************************************************)
\* a run of main() has ended
Ended == pc \in {"done", "exited", "crashed"}

\* process_users has returned in this run
UsersReturned == "users_ok" \in locals

\* the VO was handled at all: one of its steps ran, or its handler was entered
VoTouched(v) == voSteps[v] > 0 \/ v \in voHandler \/ mAttempts[v] # {}

\* C1: process_users attempts every user it is given exactly once; a user
\* whose steps all return is in ok_users and not in error_users, a user for
\* whom a step raises is in error_users and not in ok_users, and when
\* process_users has returned the two lists together hold exactly the users
\* it was given, each once.
C1_FailureIsolation ==
  /\ \A u \in Users : attempts[u] <= 1
  /\ \A u \in Users :
       attempts[u] = 1 =>
         /\ stepsDone[u] = NSteps => u \in Range(ok_users) /\ u \notin Range(error_users)
         /\ stepsDone[u] < NSteps => u \in Range(error_users) /\ u \notin Range(ok_users)
  /\ \A u \in Users :
       attempts[u] = 0 => u \notin Range(ok_users) \cup Range(error_users)
  /\ pc = "process_users" =>
       \A k \in 1..Len(ugent_users) : attempts[ugent_users[k]] = (IF k < ui THEN 1 ELSE 0)
  /\ UsersReturned =>
       /\ \A u \in Range(ugent_users) : attempts[u] = 1
       /\ Range(users_ok) \cup Range(users_critical) = Range(ugent_users)
       /\ Len(users_ok) + Len(users_critical) = Len(ugent_users)

\* C1 witness: of two users one succeeded and the other raised
C1_Witness ==
  /\ UsersReturned
  /\ Len(users_ok) = 1
  /\ Len(users_critical) = 1

\* C2: when do() has ended and the handling of one changed account id has
\* started, every changed account id has been handled, and likewise for the
\* changed project ids, whatever was raised while one of them was handled.
C2_EveryIdHandled ==
  t1pc \in {"returned", "raised"} =>
    /\ Range(t1seen) \cap Range(t1in.accounts) # {} =>
         Range(t1in.accounts) \subseteq Range(t1seen)
    /\ Range(t1seen) \cap Projects # {} =>
         (t1in.prjs \cup t1in.prj_quota) \subseteq Range(t1seen)

\* C3 (projects): after process_projects was called, every modified member of
\* each changed project whose project level steps returned is in the failure
\* list of that project when its steps raised and in its success list
\* otherwise, never in both, and process_projects returned.
C3_MemberIsolationProjects ==
  (t1opts.projects /\ t1pc \in {"finish", "returned", "raised"}
      /\ (t1opts.user => Range(t1in.accounts) = {} /\ t1in.quota = <<>>)) =>
    /\ t1pc # "raised"
    /\ \A p \in (t1in.prjs \cup t1in.prj_quota) \ t1env.failPrj :
         \A k \in 1..Len(ModifiedMembers[p]) :
           LET m == ModifiedMembers[p][k] IN
             IF m \in t1env.failMember
               THEN m \in Range(MonoidDictGet(t1prj.error_prj, p))
                    /\ m \notin Range(MonoidDictGet(t1prj.ok_prj, p))
               ELSE m \in Range(MonoidDictGet(t1prj.ok_prj, p))
                    /\ m \notin Range(MonoidDictGet(t1prj.error_prj, p))

\* C3 (VOs): in process_vos every member of a VO whose VO level steps
\* returned is attempted, a member whose steps raise is in the failure list of
\* the VO and not in its success list, the others are in its success list
\* only, and the outer except clause is not entered for the VO.
C3_MemberIsolationVos ==
  \A v \in Vos :
    /\ mRaised[v] \subseteq mAttempts[v]
    /\ mAttempts[v] # {} => v \notin voHandler /\ voSteps[v] = NVoSteps
    /\ Range(MonoidDictGet(error_vos, v)) = mRaised[v]
    /\ Range(MonoidDictGet(ok_vos, v)) = mAttempts[v] \ mRaised[v]
    /\ (v \in Range(SubSeq(ugent_vos, 1, vi - 1)) /\ v \notin voHandler) =>
         mAttempts[v] = Range(memberUid[v])

\* a member of a VO raised and another member of it succeeded
C3_WitnessVos ==
  \E v \in Vos : mRaised[v] # {} /\ mAttempts[v] \ mRaised[v] # {} /\ pc = "result"

\* C4: a VO whose VO level part raised is a key of the failure collection,
\* none of its members was attempted, and the VOs after it are handled.
C4_VoFailureRecorded ==
  /\ \A v \in voHandler :
       /\ v \in DOMAIN error_vos
       /\ mAttempts[v] = {}
  /\ pc = "result" /\ opts.vo => \A v \in Range(ugent_vos) : VoTouched(v)

\* C5: a run that acquired the lock and has ended has released the lock and
\* has cached exactly one record in the nagios reporter; a run with the vo
\* flag and without the user flag does not end in a traceback.
C5_RunEndsReleased ==
  (Ended /\ acquired) =>
    /\ lock = "free"
    /\ cached = 1
    /\ pc # "crashed"

\* C6: when VscUser.lookup or VscVo.lookup raised, the run ends CRITICAL, the
\* lock is released, no user and no VO was handled and the stored timestamp
\* is the one the run found.
C6_LookupFailureNothingProcessed ==
  (Ended /\ fatal \in {"users", "vos"}) =>
    /\ nagios.state = "CRITICAL"
    /\ exitcode = "CRITICAL"
    /\ lock = "free"
    /\ tsFile = tsAtStart
    /\ \A u \in Users : attempts[u] = 0
    /\ \A v \in Vos : ~VoTouched(v)

\* C6 as amended: when VscUser.lookup raised, no user and no VO was handled;
\* when VscVo.lookup raised, no VO was handled (the users of the run were
\* handled before); in both cases the run ends CRITICAL, the lock is released
\* and the stored timestamp is the one the run found.
C6_LookupFailure ==
  (Ended /\ fatal \in {"users", "vos"}) =>
    /\ nagios.state = "CRITICAL"
    /\ exitcode = "CRITICAL"
    /\ lock = "free"
    /\ tsFile = tsAtStart
    /\ tsWrite = "none"
    /\ fatal = "users" => \A u \in Users : attempts[u] = 0
    /\ \A v \in Vos : ~VoTouched(v)

\* C6 witness: VscVo.lookup raised after a user was handled
C6_Witness ==
  /\ Ended
  /\ fatal = "vos"
  /\ \E u \in Users : attempts[u] = 1

\* C7: the stored timestamp never decreases; after a run that ended without
\* fatal error it is at least what the run found, and after a run whose
\* lookup raised it is what the run found.
C7_WatermarkMonotone ==
  /\ [][tsFile' >= tsFile]_vars
  /\ [](pc = "done" => tsFile >= tsAtStart)
  /\ []((Ended /\ fatal \in {"users", "vos"}) => tsFile = tsAtStart)

\* C7 witness: the second run ended after writing a later timestamp
C7_Witness ==
  /\ pass = 2
  /\ pc = "done"
  /\ tsWrite = "written"
  /\ tsFile > tsAtStart

\* C8: no entry that was modified after a run read its change set and before
\* that run wrote the timestamp is left out of the change set of the next run
\* that reads entries of its kind.
C8_NoChangeLost == lost = {}

C10_FailuresNeverOk ==
  (pc = "done" /\ PyLen(users_critical) + PyLen(vos_critical) > 0) =>
    nagios.state \in {"WARNING", "CRITICAL"}

\* the run is past lock_or_bork and before the end of main
Working ==
  pc \in {"init_ldap", "read_ts", "users", "process_users", "vos", "process_vos",
          "vo_members", "result", "write_ts", "release"}

\* C12: a run that is past lock_or_bork holds the lock; a run that has not
\* acquired the lock has bound no name of main's try block, queried no
\* entity, handled no user and no VO and left the stored timestamp alone;
\* when it ends without the nagios flag it has cached CRITICAL and exits
\* CRITICAL.
C12_LockBeforeWork ==
  /\ Working => acquired /\ lock = "self"
  /\ ~acquired =>
       /\ locals = {}
       /\ ugent_users = <<>> /\ ugent_vos = <<>>
       /\ \A u \in Users : attempts[u] = 0
       /\ \A v \in Vos : ~VoTouched(v)
       /\ tsWrite = "none" /\ tsFile = tsAtStart
  /\ (Ended /\ ~acquired /\ ~opts.nagios) =>
       /\ nagios.state = "CRITICAL"
       /\ exitcode = "CRITICAL"
       /\ cached = 1

\* C12 witness: the lock was held by another run, and this run has ended
C12_Witness ==
  /\ Ended
  /\ ~acquired
  /\ ~opts.nagios
  /\ lock = "other"

\* C13: at any time at most one run is between lock_or_bork and the release
\* of the lock, that run is the one named in the lock file, and a run that
\* found the lock taken has ended with the 'already running' record without
\* ever being in that section.
C13_OneRunInside ==
  /\ Cardinality({r \in Runs : rpc[r] \in Inside}) <= 1
  /\ \A r \in Runs : rpc[r] \in Inside => lockHolder = r
  /\ \A r \in Runs : routcome[r] = "already running" => rpc[r] = "exited"

\* C13 witness: one run is provisioning while another has ended 'already running'
C13_Witness ==
  \E r1, r2 \in Runs :
    /\ rpc[r1] = "provision"
    /\ rpc[r2] = "exited"
    /\ routcome[r2] = "already running"

\* C14: when the write of the timestamp raised, the cached record is WARNING
\* with the message that the timestamp was not written, it is the only
\* record the run cached, the stored timestamp is the one the run found, and
\* the run ends with the lock released.
C14_WriteFailureWarning ==
  (tsWrite = "raised") =>
    /\ pc \in {"release", "done"}
    /\ nagios.state = "WARNING"
    /\ nagios.message = "UGent users synchronised, filestamp not written"
    /\ cached = 1
    /\ tsFile = tsAtStart
    /\ pc = "done" => lock = "free"

\* C14 witness: the run has ended after the write of the timestamp raised
C14_Witness ==
  /\ pc = "done"
  /\ tsWrite = "raised"
  /\ PyLen(users_ok) > 0

\* C15: when read_timestamp raised, the run goes on with the default
\* "200901010000Z" as last_timestamp and does not end in the except clause
\* of main for it; the lookups select every entry that is not older than the
\* default, and a run that then reaches its end has tried to write the
\* timestamp.
C15_ReadFailureDefault ==
  (tsRead = "raised") =>
    /\ last_timestamp = FarPast
    /\ fatal \notin {"read_ts"}
    /\ pc \in {"process_users", "vos"} /\ opts.user =>
         Range(ugent_users) = {u \in Users : modTime[u] >= FarPast}
    /\ pc \in {"process_vos", "vo_members", "result"} /\ opts.vo =>
         Range(ugent_vos) = {v \in Vos : modTime[v] >= FarPast} \ InstituteVos
    /\ pc \in {"release", "done"} => tsWrite # "none"

\* C15 witness: the read raised although a later timestamp was stored, the
\* users older than the stored timestamp were handled too, and a new
\* timestamp was written
C15_Witness ==
  /\ tsRead = "raised"
  /\ tsAtStart > FarPast
  /\ pc = "done"
  /\ tsWrite = "written"
  /\ \E u \in Users : modTime[u] < tsAtStart /\ attempts[u] = 1

\* the backend calls of the pass that a method issued
CallsBy(method) == SelectSeq(fcalls, LAMBDA c : c.by = method)

\* the operations among the calls
OpsOf(calls) == {calls[i].op : i \in 1..Len(calls)}

\* the backend at the start of the pass that is running
GpfsBefore ==
  IF fround > 1 /\ Len(fsnap) >= fround - 1 THEN fsnap[fround - 1].gpfs
  ELSE IF fin.exists THEN ExistingGpfs ELSE NoGpfs

\* the status the user is in after notify_user_directory_created was applied
\* to the status the LDAP had
Notified == IF ~fin.dry_run /\ fin.status = "new" THEN "notify" ELSE fin.status

\* C11: with dry_run set, no pass issues a call of an operation that changes
\* the backend, and the status of the user stays what it was.
C11_DryRunNoMutation ==
  fin.dry_run =>
    /\ OpsOf(fcalls) \cap GpfsOps = {}
    /\ \A i \in 1..Len(fsnap) : OpsOf(fsnap[i].calls) \cap GpfsOps = {}
    /\ fstatus = fin.status

\* C16: the status of the user is the one the LDAP had until
\* notify_user_directory_created is applied; from then on, in this pass and
\* in every later one, it is notify when the LDAP had new and dry_run is
\* off, and the status the LDAP had otherwise.
C16_NotifyOneWay ==
  /\ fstatus = (IF fround = 1 /\ fpc = "user" THEN fin.status ELSE Notified)
  /\ \A i \in 1..Len(fsnap) : fsnap[i].status = Notified
  /\ fin.status # "new" => fstatus = fin.status
  /\ fin.dry_run => fstatus = fin.status

\* C16 witness: the function was applied a second time to a user that the
\* first pass moved from new to notify
C16_Witness ==
  /\ fpc = "finished"
  /\ fin.status = "new"
  /\ ~fin.dry_run
  /\ fstatus = "notify"
  /\ Len(fsnap) >= 2

\* C17: when the fileset of the VO exists at the start of the pass and
\* create_data_fileset returns, it has not called make_dir or make_fileset,
\* it has set the mode and the owner, and it has set the quota of the
\* fileset; when the fileset of the project exists and create_fileset
\* returns, it has not called make_dir or make_fileset and has set the mode.
C17_FilesetIdempotentWithQuota ==
  \A i \in 1..Len(fexc) :
    /\ (fexc[i].method = "create_data_fileset" /\ fexc[i].exc = "none"
          /\ FsVo \in GpfsBefore.filesets) =>
         /\ OpsOf(CallsBy("create_data_fileset")) \cap {"make_dir", "make_fileset"} = {}
         /\ {"chmod", "chown"} \subseteq OpsOf(CallsBy("create_data_fileset"))
         /\ "set_fileset_quota" \in OpsOf(CallsBy("create_data_fileset"))
    /\ (fexc[i].method = "create_fileset" /\ fexc[i].exc = "none"
          /\ FsProject \in GpfsBefore.filesets) =>
         /\ OpsOf(CallsBy("create_fileset")) \cap {"make_dir", "make_fileset"} = {}
         /\ "chmod" \in OpsOf(CallsBy("create_fileset"))

\* C18: when the moderator lookup of create_fileset raised and no backend
\* operation of the fileset creation is out of order, create_fileset returns,
\* the fileset of the project exists and is owned by the uid of nobody and
\* the group id of the project.
C18_ModeratorFallback ==
  \A i \in 1..Len(fexc) :
    (fexc[i].method = "create_fileset" /\ fin.lookup # "ok"
       /\ fin.failing \cap {"make_dir", "make_fileset", "chmod", "chown"} = {}) =>
      /\ fexc[i].exc = "none"
      /\ FsProject \in gpfs.filesets
      /\ FsProject \in DOMAIN gpfs.owner
      /\ gpfs.owner[FsProject] = <<NobodyUid, PrjGid>>

\* C19: at the end of every pass after the first, the backend (filesets,
\* directories, modes, owners, quota) and the status of the user are what
\* they were at the end of the pass before, and every entity that failed in
\* the pass failed in the pass before.
C19_SecondPassSame ==
  \A i \in 2..Len(fsnap) :
    /\ fsnap[i].gpfs = fsnap[i - 1].gpfs
    /\ fsnap[i].status = fsnap[i - 1].status
    /\ fsnap[i].fail \subseteq fsnap[i - 1].fail

\* C19 witness: the first pass created the fileset of the VO and moved the
\* user to notify, and the second pass has issued backend calls too
C19_Witness ==
  /\ Len(fsnap) >= 2
  /\ "make_fileset" \in OpsOf(fsnap[1].calls)
  /\ fsnap[1].fail = {}
  /\ fin.status = "new" /\ fsnap[1].status = "notify"
  /\ Len(fsnap[2].calls) > 0

\* the source quota, in KiB, that a quota call was made for
SourceQuota(c) ==
  IF c.by \in {"set_data_quota", "set_member_data_quota"} THEN fin.dataQuota
  ELSE IF fin.cache = 0 THEN DodrioQuotaPrj ELSE fin.cache

\* the calls that set a quota
QuotaCalls ==
  SelectSeq(fcalls, LAMBDA c : c.op \in {"set_fileset_quota", "set_user_quota"})

\* C20: every quota call with a hard limit H > 0 has a soft limit S with
\* 0 < S <= H that is int(H * fraction), and no quota call made for a source
\* quota of at least 1 KiB has the hard limit 0.
C20_SoftHardQuota ==
  \A i \in 1..Len(QuotaCalls) :
    LET c == QuotaCalls[i] IN
      /\ c.b > 0 => (0 < c.a /\ c.a <= c.b /\ c.a = SoftOf(c.b, fin.frac))
      /\ SourceQuota(c) >= 1 => c.b > 0

\* C20, the part on the soft limit only
C20_SoftWithinHard ==
  \A i \in 1..Len(QuotaCalls) :
    LET c == QuotaCalls[i] IN
      c.b > 0 => (0 < c.a /\ c.a <= c.b /\ c.a = SoftOf(c.b, fin.frac))

\* the replication factor of the storage, 1 when the storage has none
Factor == IF fin.rf = 0 THEN 1 ELSE fin.rf

\* C21: every set_fileset_quota call, of the VO code and of the tier1c
\* backend, has the hard limit source quota (KiB) x 1024 x replication
\* factor and the soft limit int(hard x soft fraction).
C21_HardIsKibTimesFactor ==
  \A i \in 1..Len(fcalls) :
    LET c == fcalls[i] IN
      c.op = "set_fileset_quota" =>
        /\ c.b = SourceQuota(c) * 1024 * Factor
        /\ c.a = SoftOf(c.b, fin.frac)

\* the quota calls a member method made for a member
MemberQuotaCalls(method, member) ==
  SelectSeq(fcalls, LAMBDA c : c.by = method /\ c.who = member /\ c.op = "set_user_quota")

\* the quota (KiB) of the fileset a member method sets a share of
FilesetQuota(method) ==
  IF method = "set_member_data_quota" THEN fin.dataQuota ELSE fin.scratchQuota

\* C22: a member method of the VO that returned, with nothing out of order,
\* has made one set_user_quota call for the member whose hard limit is half
\* of the quota of the same fileset in bytes (quota in KiB x 1024 / 2), and
\* the member method of the project has made a quota call for the member.
C22_MemberGetsHalf ==
  \A i \in 1..Len(fexc) :
    LET e == fexc[i]
        calls == MemberQuotaCalls(e.method, e.target)
    IN
      (e.exc = "none" /\ fin.failing = {}) =>
        /\ Len(calls) = 1
        /\ e.method # "prj.set_member_scratch_quota" =>
             2 * calls[1].b = FilesetQuota(e.method) * 1024

\* C23: a member step of the VO (set_member_data_quota and the symlink step
\* that follows it) is attempted only when the fileset of the VO exists on
\* the backend.
C23_MemberStepsNeedFileset ==
  (\E i \in 1..Len(fexc) : fexc[i].method = "set_member_data_quota") =>
    FsVo \in gpfs.filesets

\* ascending order of the identifiers of the VOs
VoOrder == <<"gvo00001", "gvo00002", "gvo00012">>

\* the entities a loop over seq has handled when its index is k
Handled(seq, k) == SubSeq(seq, 1, k - 1)

\* C24: in the LDAP sync the users that process_users has handled and the VOs
\* that process_vos has handled were handled in ascending order of their
\* identifiers, whatever order the lookup returned them in.
C24_AscendingOrder ==
  /\ Handled(ugent_users, ui) = Sorted(Range(Handled(ugent_users, ui)), IdOrder)
  /\ Handled(ugent_vos, vi) = Sorted(Range(Handled(ugent_vos, vi)), VoOrder)

\* C25: a run with the nagios flag is at the report or has exited with the
\* state of the stored record; it has not acquired the lock, has bound no
\* name of the try block of main, has looked up and handled no user and no
\* VO, has neither read nor written the timestamp and has cached no record.
C25_NagiosOnlyReports ==
  (opts.nagios /\ pc # "idle") =>
    /\ pc \in {"report", "exited"}
    /\ ~acquired /\ lock # "self"
    /\ locals = {}
    /\ ugent_users = <<>> /\ ugent_vos = <<>>
    /\ \A u \in Users : attempts[u] = 0
    /\ \A v \in Vos : ~VoTouched(v)
    /\ tsRead = "none" /\ tsWrite = "none" /\ tsFile = tsAtStart
    /\ cached = 0
    /\ pc = "exited" => exitcode = nagios.state

\* C25 witness: a run with the nagios flag and with the user and vo flags
\* has exited
C25_Witness ==
  /\ opts.nagios /\ opts.user /\ opts.vo
  /\ pc = "exited"

\* C26: when process_vos has returned, every VO it handled is a key of
\* exactly one of the two collections it returned.
C26_ExactlyOneCollection ==
  (pc = "result" /\ opts.vo) =>
    \A v \in Range(ugent_vos) : (v \in DOMAIN vos_ok) # (v \in DOMAIN vos_critical)

\* C26, the part on double counting only: no VO is a key of both collections
C26_NotInBoth ==
  (pc = "result" /\ opts.vo) =>
    \A v \in Range(ugent_vos) : ~(v \in DOMAIN vos_ok /\ v \in DOMAIN vos_critical)

\* C27: whenever the status of a user changes, it changes from new to notify,
\* dry_run is off, and in the iteration of process_users that changed it
\* the five storage steps before the status transition (create_home_dir,
\* set_home_quota, populate_home_dir, create_data_dir, set_data_quota) have
\* all returned.
C27_NotifyAfterAllSteps ==
  [][\A u \in Users :
       status'[u] # status[u] =>
         /\ status[u] = "new" /\ status'[u] = "notify"
         /\ ~opts.dry_run
         /\ stepsDone'[u] >= 5
         /\ attempts'[u] = attempts[u] + 1]_vars

\* C27 witness: one user went through all steps and is in notify, the other
\* one was stopped by its fourth step
C27_Witness ==
  /\ status["vsc40001"] = "notify" /\ stepsDone["vsc40001"] = NSteps
  /\ attempts["vsc40002"] = 1 /\ stepsDone["vsc40002"] = 3
  /\ status["vsc40002"] = "active"

\* whether do() has recorded a failure
AnyFailure ==
  Len(t1users.error_users) > 0 \/ Len(t1users.error_quota) > 0 \/ PyLen(t1prj.error_prj) > 0

C29_WrongStorageRaisesFirst ==
  t1in.storage_name # VSC_TIER1C_SCRATCH =>
    /\ t1seen = <<>>
    /\ t1pc \notin {"t1_users", "t1_quota"}
    /\ t1users = NoT1Users /\ t1prj = NoT1Prj
    /\ t1pc \in {"finish", "returned"} => ~t1opts.user /\ ~t1opts.projects
    /\ t1pc = "projects" => ~t1opts.user

\* C29 witness: process_t1_users was called with changed accounts and another
\* storage name and has raised
C29_Witness ==
  /\ t1in.storage_name # VSC_TIER1C_SCRATCH
  /\ t1opts.user
  /\ Len(t1in.accounts) = 2
  /\ t1pc = "raised"

\* C30: the quota call of VscTier1cProject.set_quota has the hard limit of
\* the quota record the project has on the account page when it has one, and
\* the default quota_prj of the storage only when it has none (both in KiB,
\* times 1024 and the replication factor).
C30_QuotaFromRecord ==
  \A i \in 1..Len(fcalls) :
    LET c == fcalls[i] IN
      (c.by = "set_quota" /\ c.op = "set_fileset_quota") =>
        c.b = (IF fin.record # 0 THEN fin.record ELSE DodrioQuotaPrj) * 1024 * fin.rf

\* C31: a member whose steps in process_vos returned without exception, and
\* who is therefore added to ok_vos at line 132, had a set_user_quota call
\* made for them on the backend in the same pass.
C31_OkMemberHadQuotaCall ==
  \A i \in 1..Len(fexc) :
    LET e == fexc[i] IN
      (e.method = "set_member_data_quota" /\ e.exc = "none") =>
        \E j \in 1..Len(fcalls) :
          fcalls[j].op = "set_user_quota" /\ fcalls[j].who = e.target

\* C32: when delete_moderator was called for the only moderator the entry of
\* an existing VO has in the LDAP, it has returned None.
C32_DeleteLastModeratorReturnsNone ==
  (mpc = "loaded" /\ mvo.exists /\ mret.call = "delete_moderator" /\ mldap = <<mret.arg>>) =>
    mret.ret = "None"

\* C32: the moderators of an existing VO in memory are a list that is not
\* empty and is the list of the moderators of its entry in the LDAP.
C32_ModeratorsMatchLdap ==
  (mpc = "loaded" /\ mvo.exists) =>
    /\ mvo.moderators.t = "list"
    /\ mvo.moderators.v # <<>>
    /\ mvo.moderators = StrList(mldap)

====
